---- MODULE Spec2Model ----
(***************************************************************************)
(* URLRequestHttpJob (net/url_request/url_request_http_job.cc) as a state  *)
(* machine.  One action per entry point, callback or posted task; every    *)
(* action runs its handler to the end of its call stack, so the nested     *)
(* calls of the C++ code are nested operators on the state record S.       *)
(*                                                                         *)
(* job   : the fields of URLRequestHttpJob                                 *)
(* txn   : the HttpTransaction held in transaction_ (collaborator)         *)
(* sched : callbacks handed to collaborators and tasks posted to the loop  *)
(* req   : the URLRequest / URLRequestJob base-class side (the consumer)   *)
(* obs   : history of what the job did, read only by the properties        *)
(***************************************************************************)
EXTENDS Integers, Sequences, FiniteSets, TLC

VARIABLES job, txn, sched, req, obs

vars == <<job, txn, sched, req, obs>>

(* ---------------------------------------------------------------------- *)
(* Bounds of the model                                                     *)
(* ---------------------------------------------------------------------- *)
MaxLines == 2
MaxRestarts == 1
MaxBytes == 2
MaxBody == 2
MaxKills == 2
MaxTokens == 2
MaxCookies == 2
MaxMarkers == 1

(* ---------------------------------------------------------------------- *)
(* Net error codes used by the job                                         *)
(* ---------------------------------------------------------------------- *)
OK == 0
ERR_IO_PENDING == 0 - 1
ERR_FAILED == 0 - 2
ERR_BLOCKED_BY_CLIENT == 0 - 20
ERR_SSL_CLIENT_AUTH_CERT_NEEDED == 0 - 110
ERR_TEMPORARILY_THROTTLED == 0 - 139
ERR_CERT_AUTHORITY_INVALID == 0 - 202
ERR_CERT_KNOWN_INTERCEPTION_BLOCKED == 0 - 217
ERR_DISALLOWED_URL_SCHEME == 0 - 301
ERR_CONTENT_LENGTH_MISMATCH == 0 - 354
ERR_INCOMPLETE_CHUNKED_ENCODING == 0 - 355
ERR_CONTENT_DECODING_INIT_FAILED == 0 - 371

IsCertificateError(rv) ==
  rv \in {ERR_CERT_AUTHORITY_INVALID, ERR_CERT_KNOWN_INTERCEPTION_BLOCKED}

(* ---------------------------------------------------------------------- *)
(* Values                                                                  *)
(* ---------------------------------------------------------------------- *)
AUTH_STATE_DONT_NEED_AUTH == "DONT_NEED_AUTH"
AUTH_STATE_NEED_AUTH == "NEED_AUTH"
AUTH_STATE_HAVE_AUTH == "HAVE_AUTH"
AUTH_STATE_CANCELED == "CANCELED"

(* Bits of a certificate status: one error bit, one that is no error.      *)
CERT_STATUS_DATE_INVALID == "DATE_INVALID"
CERT_STATUS_IS_EV == "IS_EV"
CERT_STATUS_ALL_ERRORS == {CERT_STATUS_DATE_INVALID}

IsCertStatusError(cert_status) == cert_status \cap CERT_STATUS_ALL_ERRORS # {}

(* ssl_info of a response: is_valid() and cert_status.                     *)
NoSSLInfo == [is_valid |-> FALSE, cert_status |-> {}]

(* SourceStream::SourceType, what ParseEncodingType makes of a token of    *)
(* the Content-Encoding header.                                            *)
TYPE_BROTLI == "TYPE_BROTLI"
TYPE_DEFLATE == "TYPE_DEFLATE"
TYPE_GZIP == "TYPE_GZIP"
TYPE_NONE == "TYPE_NONE"
TYPE_UNKNOWN == "TYPE_UNKNOWN"

DecodableTypes == {TYPE_BROTLI, TYPE_DEFLATE, TYPE_GZIP}

SourceTypes == DecodableTypes \cup {TYPE_NONE, TYPE_UNKNOWN}

NoHeaders ==
  [code |-> 0 - 1, lines |-> 0, clen |-> 0 - 1, sts |-> FALSE,
   expect_ct |-> FALSE, content_encoding |-> <<>>, unparsable |-> {},
   date |-> 0]
NoResponse ==
  [present |-> FALSE, headers |-> NoHeaders, ready |-> FALSE,
   ssl_info |-> NoSSLInfo]
NoCookie == <<"none", 0>>

(* The Cookie header Start() sets for one host and path.                   *)
ConsentCookie == <<"CONSENT", 0>>

(* Cookies of a CookieAccessResultList: the name, the exclusion reasons of *)
(* the access result, and whether the user-blocking filter blocks it.      *)
EXCLUDE_USER_PREFERENCES == "EXCLUDE_USER_PREFERENCES"
EXCLUDE_SAMESITE_STRICT == "EXCLUDE_SAMESITE_STRICT"
EXCLUDE_FAILURE_TO_STORE == "EXCLUDE_FAILURE_TO_STORE"

NoCookieLists == [included |-> <<>>, excluded |-> <<>>]

OneCookieLists ==
  [included |-> <<[name |-> 1, reasons |-> {}, user_blocked |-> FALSE]>>,
   excluded |-> <<>>]

(* What the jar can answer: up to MaxCookies matching cookies, and none or *)
(* one cookie it excluded itself.                                          *)
CookieLists ==
  {[included |-> [i \in 1..n |->
                    [name |-> i, reasons |-> {}, user_blocked |-> b[i]]],
    excluded |-> IF x THEN <<[name |-> 0,
                              reasons |-> {EXCLUDE_SAMESITE_STRICT},
                              user_blocked |-> FALSE]>>
                      ELSE <<>>] :
     n \in 0..MaxCookies, b \in [1..MaxCookies -> BOOLEAN], x \in BOOLEAN}

(* The history of one cookie read: what the jar answered, whether the      *)
(* handler set a Cookie header.                                            *)
NoCookieRead == [done |-> FALSE, lists |-> NoCookieLists, set_header |-> FALSE]

AddExclusionReason(cookies, reason) ==
  [i \in DOMAIN cookies |->
     [cookies[i] EXCEPT !.reasons = @ \cup {reason}]]

RECURSIVE SelectBlocked(_, _)
SelectBlocked(cookies, blocked) ==
  IF cookies = <<>> THEN <<>>
  ELSE IF Head(cookies).user_blocked = blocked
    THEN <<Head(cookies)>> \o SelectBlocked(Tail(cookies), blocked)
  ELSE SelectBlocked(Tail(cookies), blocked)

(* URLRequestJob::AnnotateAndMoveUserBlockedCookies: the blocked cookies   *)
(* go to the excluded list with the reason added.                          *)
AnnotateAndMoveUserBlockedCookies(maybe_included_cookies, excluded_cookies) ==
  [included |-> SelectBlocked(maybe_included_cookies, FALSE),
   excluded |-> excluded_cookies \o
                  AddExclusionReason(SelectBlocked(maybe_included_cookies, TRUE),
                                     EXCLUDE_USER_PREFERENCES)]

(* Substrings of the host for which Start() has a User-Agent of its own,   *)
(* in the order of the tests, and those User-Agent values.                 *)
HostMarkers ==
  <<"addons.opera.com", "chrome.google.com", "web.whatsapp.com",
    "messenger.com", "facebook.com", "news.google.com">>

FixedUserAgent ==
  [m \in 1..Len(HostMarkers) |->
     <<"OPR/60", "Chrome/93", "Chrome/93 Mobile", "Firefox/57",
       "Firefox/48 KAIOS", "Chrome/71 Android">>[m]]

(* A URL: the markers its host contains, and whether its path contains the *)
(* string Start() looks for.                                               *)
PlainURL == [host_contains |-> {}, path_match |-> FALSE]

URLs ==
  {u \in [host_contains :
            {x \in SUBSET {HostMarkers[m] : m \in 1..Len(HostMarkers)} :
               Cardinality(x) <= MaxMarkers},
          path_match : BOOLEAN] :
     u.path_match => "news.google.com" \in u.host_contains}

(* HttpUserAgentSettings, or none; whether features::kAcceptLanguageHeader *)
(* is enabled.                                                             *)
DefaultUserAgentSettings ==
  [exists |-> TRUE, accept_language_empty |-> FALSE, feature |-> TRUE]

UserAgentSettings ==
  [exists : BOOLEAN, accept_language_empty : BOOLEAN, feature : BOOLEAN]

(* User-Agent and Accept-Language of request_info_.extra_headers.          *)
NoExtraHeaders == [user_agent |-> "missing", accept_language |-> "missing"]

CallerHeaders ==
  [user_agent : {"missing", "caller"}, accept_language : {"missing", "caller"}]
NoCredentials == "empty"

(* Response headers: status code, number of Set-Cookie lines, declared     *)
(* Content-Length (-1 when the header is absent), whether there is a       *)
(* Strict-Transport-Security and an Expect-CT header, the types of the     *)
(* Content-Encoding tokens in header order, the Set-Cookie lines that      *)
(* CanonicalCookie::Create cannot parse, the value of the Date header (0   *)
(* when there is none).                                                    *)
Headers(lines, clens) ==
  [code : {200, 401, 407}, lines : lines, clen : clens, sts : {FALSE},
   expect_ct : {FALSE}, content_encoding : {<<>>}, unparsable : {{}},
   date : {0}]

(* What a transaction can report with a successful start.                  *)
Responses(lines, clens) ==
  {[present |-> TRUE, headers |-> h, ready |-> r, ssl_info |-> NoSSLInfo] :
     h \in Headers(lines, clens), r \in BOOLEAN}

(* The responses of the lifecycle specification carry no Content-Length;   *)
(* those of the transfer specification carry no Set-Cookie line.           *)
LifecycleResponses == Responses(0..MaxLines, {0 - 1})

TransferResponses == Responses({0}, (0 - 1)..MaxBody)

(* Headers a NetworkDelegate may put into override_response_headers_.      *)
OverrideHeaders ==
  {[code |-> 200, lines |-> 1, clen |-> 1, sts |-> FALSE, expect_ct |-> FALSE,
    content_encoding |-> <<>>, unparsable |-> {}, date |-> 0]}

StartErrors ==
  {ERR_FAILED, ERR_CERT_AUTHORITY_INVALID, ERR_CERT_KNOWN_INTERCEPTION_BLOCKED,
   ERR_SSL_CLIENT_AUTH_CERT_NEEDED}

(* Environment choices consumed by the transaction-start path.             *)
(*   jar_read : how CookieStore::GetCookieListWithOptionsAsync answers     *)
(*   pre_hook : what NetworkDelegate::NotifyBeforeStartTransaction returns *)
(*   throttle : URLRequestThrottlerEntry::ShouldRejectRequest              *)
(*   start    : what HttpTransaction::Start / RestartWith... returns       *)
StartInputs ==
  [jar_read : {"pending", "sync_empty", "sync_cookies"},
   pre_hook : {ERR_IO_PENDING, OK, ERR_BLOCKED_BY_CLIENT},
   throttle : BOOLEAN,
   start : {ERR_IO_PENDING, OK} \cup StartErrors]

DefaultStartInput ==
  [jar_read |-> "pending", pre_hook |-> ERR_IO_PENDING, throttle |-> FALSE,
   start |-> ERR_IO_PENDING]

(* ---------------------------------------------------------------------- *)
(* The state as one record, and its write-back                             *)
(* ---------------------------------------------------------------------- *)
S == [job |-> job, txn |-> txn, sched |-> sched, req |-> req, obs |-> obs]

Apply(s) ==
  /\ job' = s.job
  /\ txn' = s.txn
  /\ sched' = s.sched
  /\ req' = s.req
  /\ obs' = s.obs

(* caching: whether DoneReading() or StopCaching() was called.             *)
NoTransaction ==
  [cb |-> "none", response |-> NoResponse, received |-> 0, sent |-> 0,
   request_cookie |-> NoCookie, request_headers |-> NoExtraHeaders,
   caching |-> "open"]

NoNotes ==
  [start_error |-> 0, headers_complete |-> 0, cert_error |-> 0,
   cert_requested |-> 0, final_headers |-> 0]


(* ---------------------------------------------------------------------- *)
(* Call stacks, posted tasks and bound callbacks                           *)
(* ---------------------------------------------------------------------- *)
(* Every action starts a call stack: from a consumer entry point, from a   *)
(* task run by the message loop, or from a collaborator's callback.        *)
(* The certificate error the running handler completed with, and what     *)
(* ShouldSSLErrorsBeFatal(host) answered for it.                           *)
NoCertificateError == [seen |-> FALSE, result |-> OK, policy_fatal |-> FALSE]

(* What the running handler moved to the request with                      *)
(* set_maybe_stored_cookies: the number of tuples, the Set-Cookie lines of *)
(* the response headers, the run of NotifyHeadersComplete for this         *)
(* response it was, the lines handed to the jar by then, whether the       *)
(* transaction was ready to restart, and the Strict-Transport-Security and *)
(* Expect-CT headers and the TLS state of the response.                    *)
NoPublication ==
  [done |-> FALSE, list |-> <<>>, lines |-> 0, nhc |-> 0,
   written |-> {}, ready |-> FALSE, sts |-> FALSE, expect_ct |-> FALSE,
   clean_tls |-> FALSE]

Enter(s, origin) ==
  [s EXCEPT !.obs.origin = origin, !.obs.syncs = {},
            !.obs.cert = NoCertificateError,
            !.obs.pub = NoPublication]

Leave(s) == [s EXCEPT !.obs.origin = "idle", !.obs.syncs = {}]

(* A suspension point answered synchronously in the running stack.         *)
MarkSync(s, point) == [s EXCEPT !.obs.syncs = @ \cup {point}]

(* base::ThreadTaskRunnerHandle::Get()->PostTask(..., weak_factory_...)    *)
PostTask(s, kind, arg) ==
  [s EXCEPT !.sched.tasks =
              Append(@, [kind |-> kind, valid |-> TRUE, arg |-> arg])]

(* base::BindOnce(..., weak_factory_.GetWeakPtr(), ...) handed out.        *)
BindWeak(s, kind, arg) ==
  [s EXCEPT !.sched.callbacks =
              @ \cup {[kind |-> kind, valid |-> TRUE, arg |-> arg]}]

(* weak_factory_.InvalidateWeakPtrs()                                      *)
InvalidateWeakPtrs(s) ==
  [s EXCEPT !.sched.callbacks = {[c EXCEPT !.valid = FALSE] : c \in @},
            !.sched.tasks = [i \in DOMAIN @ |-> [@[i] EXCEPT !.valid = FALSE]]]

(* ---------------------------------------------------------------------- *)
(* URLRequestJob base class: notifications to the consumer                 *)
(* ---------------------------------------------------------------------- *)
Deliver(s, note, phase) ==
  [s EXCEPT !.obs.notes[note] = @ + 1,
            !.obs.in_stack = @ \cup s.obs.syncs,
            !.obs.reentrant = @ \/ (s.obs.origin = "consumer"),
            !.req.phase = phase]

NotifyStartError(s, result) ==
  [Deliver(s, "start_error", "failed") EXCEPT !.req.error = result]

NotifySSLCertificateError(s, result, fatal) ==
  [Deliver(s, "cert_error", "cert_error") EXCEPT !.req.fatal = fatal]

NotifyCertificateRequested(s) == Deliver(s, "cert_requested", "cert_requested")


(* ---------------------------------------------------------------------- *)
(* URLRequestHttpJob helpers                                               *)
(* ---------------------------------------------------------------------- *)
(* The transaction's headers, whatever the NetworkDelegate stored.         *)
GetResponseHeaders_TransactionOnly(s) == s.txn.response.headers

GetResponseHeaders(s) ==
  IF s.job.override_response_headers_ # NoHeaders
    THEN s.job.override_response_headers_
    ELSE s.txn.response.headers

(* HttpResponseHeaders::IsRedirect: a redirect status with a Location.     *)
RedirectCodes == {301, 302, 303, 307, 308}

IsRedirect(headers) == headers.code \in RedirectCodes

(* The HttpResponseInfo GetResponseInfo() fills in, if it does.            *)
NoResponseInfo == [asked |-> FALSE, filled |-> FALSE, headers |-> NoHeaders]

GetResponseInfo(s) ==
  IF s.job.response_info_
    THEN [asked |-> TRUE, filled |-> TRUE,
          headers |-> IF s.job.override_response_headers_ # NoHeaders
                        THEN s.job.override_response_headers_
                        ELSE s.txn.response.headers]
    ELSE [asked |-> TRUE, filled |-> FALSE, headers |-> NoHeaders]

GetResponseCode(s) ==
  IF ~s.job.response_info_ THEN 0 - 1 ELSE GetResponseHeaders(s).code

(* History of the last NeedsAuth() call: the status it saw, the auth states *)
(* before and after, the answer.                                           *)
NoNeedsAuth ==
  [called |-> FALSE, code |-> 0 - 1, ret |-> FALSE,
   proxy_before |-> AUTH_STATE_DONT_NEED_AUTH,
   server_before |-> AUTH_STATE_DONT_NEED_AUTH,
   proxy_after |-> AUTH_STATE_DONT_NEED_AUTH,
   server_after |-> AUTH_STATE_DONT_NEED_AUTH]

RecordNeedsAuth(s, code, r) ==
  [ret |-> r.ret,
   s |-> [r.s EXCEPT !.obs.na =
            [called |-> TRUE, code |-> code, ret |-> r.ret,
             proxy_before |-> s.job.proxy_auth_state_,
             server_before |-> s.job.server_auth_state_,
             proxy_after |-> r.s.job.proxy_auth_state_,
             server_after |-> r.s.job.server_auth_state_]]]

(* NeedsAuth() that asks again after the consumer cancelled.               *)
NeedsAuth_IgnoresCanceled(s) ==
  LET code == GetResponseCode(s) IN
  RecordNeedsAuth(s, code,
    IF code = 407
      THEN [ret |-> TRUE,
            s |-> [s EXCEPT !.job.proxy_auth_state_ = AUTH_STATE_NEED_AUTH]]
    ELSE IF code = 401
      THEN [ret |-> TRUE,
            s |-> [s EXCEPT !.job.server_auth_state_ = AUTH_STATE_NEED_AUTH]]
    ELSE [ret |-> FALSE, s |-> s])

(* Returns the answer and the state with the auth state it may have set.   *)
NeedsAuth(s) ==
  LET code == GetResponseCode(s) IN
  RecordNeedsAuth(s, code,
    IF code = 407
      THEN IF s.job.proxy_auth_state_ = AUTH_STATE_CANCELED
             THEN [ret |-> FALSE, s |-> s]
             ELSE [ret |-> TRUE,
                   s |-> [s EXCEPT !.job.proxy_auth_state_ =
                                      AUTH_STATE_NEED_AUTH]]
    ELSE IF code = 401
      THEN IF s.job.server_auth_state_ = AUTH_STATE_CANCELED
             THEN [ret |-> FALSE, s |-> s]
             ELSE [ret |-> TRUE,
                   s |-> [s EXCEPT !.job.server_auth_state_ =
                                      AUTH_STATE_NEED_AUTH]]
    ELSE [ret |-> FALSE, s |-> s])

(* ---------------------------------------------------------------------- *)
(* Redirect targets                                                        *)
(* ---------------------------------------------------------------------- *)
(* A GURL: is_valid() and scheme().                                        *)
Schemes == {"http", "https", "ws", "data"}

Locations == [is_valid : BOOLEAN, scheme : Schemes]

(* request_->context()->job_factory(): absent, or present with the schemes *)
(* IsSafeRedirectTarget approves.                                          *)
NoJobFactory == [exists |-> FALSE, safe_targets |-> {}]

JobFactories ==
  {NoJobFactory} \cup
    {[exists |-> TRUE, safe_targets |-> safe] : safe \in SUBSET Schemes}

IsSafeRedirectTarget(s, location) ==
  location.scheme \in s.req.job_factory.safe_targets

(* The test that looks at the scheme only.                                 *)
IsSafeRedirect_IgnoresValidity(s, location) ==
  IF location.scheme = "http" \/ location.scheme = "https"
    THEN TRUE
    ELSE s.req.job_factory.exists /\ IsSafeRedirectTarget(s, location)

IsSafeRedirect(s, location) ==
  IF location.is_valid
       /\ (location.scheme = "http" \/ location.scheme = "https")
    THEN TRUE
    ELSE s.req.job_factory.exists /\ IsSafeRedirectTarget(s, location)

(* ---------------------------------------------------------------------- *)
(* The decode pipeline                                                     *)
(* ---------------------------------------------------------------------- *)
(* A stream is the sequence of its stages, the raw body first; no stream   *)
(* (nullptr) is the empty sequence.                                        *)
NullStream == <<>>

RawStream == <<"raw">>

(* request_->accepted_stream_types() is unset or a set of types.           *)
AllTypesAccepted == [has_value |-> FALSE, types |-> {}]

AcceptedStreamTypes(types) == [has_value |-> TRUE, types |-> types]

Accepted(s, source_type) ==
  \/ ~s.req.accepted_stream_types.has_value
  \/ source_type \in s.req.accepted_stream_types.types

(* The first loop that steps over unknown, identity and disabled tokens.   *)
RECURSIVE CollectTypes_SkipsOthers(_, _, _)
CollectTypes_SkipsOthers(s, tokens, types) ==
  IF tokens = <<>> THEN [pass_through |-> FALSE, types |-> types]
  ELSE IF Head(tokens) \in DecodableTypes /\ Accepted(s, Head(tokens))
    THEN CollectTypes_SkipsOthers(s, Tail(tokens), Append(types, Head(tokens)))
  ELSE CollectTypes_SkipsOthers(s, Tail(tokens), types)

(* The first loop: the types in header order, or the decision to return    *)
(* the raw stream.                                                         *)
RECURSIVE CollectTypes(_, _, _)
CollectTypes(s, tokens, types) ==
  IF tokens = <<>> THEN [pass_through |-> FALSE, types |-> types]
  ELSE IF Head(tokens) \in DecodableTypes
    THEN IF ~Accepted(s, Head(tokens))
           THEN [pass_through |-> TRUE, types |-> types]
           ELSE CollectTypes(s, Tail(tokens), Append(types, Head(tokens)))
  ELSE [pass_through |-> TRUE, types |-> types]

(* CreateBrotliSourceStream / GzipSourceStream::Create: the stream wrapped *)
(* in one more stage, or nullptr.                                          *)
CreateSourceStream(s, upstream, type) ==
  IF type \in s.req.failing_stream_types
    THEN NullStream
    ELSE Append(upstream, type)

(* The second loop that starts with the first type of the header.          *)
RECURSIVE WrapStages_HeaderOrder(_, _, _)
WrapStages_HeaderOrder(s, upstream, types) ==
  IF types = <<>> THEN upstream
  ELSE LET downstream == CreateSourceStream(s, upstream, Head(types)) IN
       IF downstream = NullStream
         THEN NullStream
         ELSE WrapStages_HeaderOrder(s, downstream, Tail(types))

(* The second loop, from types.rbegin() to types.rend().                   *)
RECURSIVE WrapStages(_, _, _)
WrapStages(s, upstream, types) ==
  IF types = <<>> THEN upstream
  ELSE LET type == types[Len(types)]
           downstream == CreateSourceStream(s, upstream, type) IN
       IF downstream = NullStream
         THEN NullStream
         ELSE WrapStages(s, downstream, SubSeq(types, 1, Len(types) - 1))

SetUpSourceStream(s) ==
  IF ~s.job.response_info_ THEN NullStream
  ELSE LET upstream == RawStream
           collected == CollectTypes(s, GetResponseHeaders(s).content_encoding,
                                     <<>>) IN
       IF collected.pass_through
         THEN upstream
         ELSE WrapStages(s, upstream, collected.types)

(* URLRequestJob::NotifyFinalHeadersReceived: sets up the source stream,   *)
(* fails the request when there is none, and tells the consumer.           *)
NotifyFinalHeadersReceived(s) ==
  LET stream == SetUpSourceStream(s)
      s1 == [s EXCEPT !.req.source_stream = stream,
                      !.obs.set_up =
                         [done |-> TRUE,
                          content_encoding |->
                            GetResponseHeaders(s).content_encoding]] IN
  IF stream = NullStream
    THEN [Deliver(s1, "final_headers", "failed") EXCEPT
            !.req.error = ERR_CONTENT_DECODING_INIT_FAILED]
    ELSE Deliver(s1, "final_headers", "reading")

(* URLRequestJob::NotifyHeadersComplete: asks the job whether the response *)
(* is an auth challenge; if not the response is final.                     *)
URLRequestJob_NotifyHeadersComplete(s) ==
  LET s1 == [Deliver(s, "headers_complete", "waiting") EXCEPT
               !.req.response_headers = GetResponseHeaders(s)]
      na == NeedsAuth(s1) IN
  IF IsRedirect(GetResponseHeaders(s1))
    THEN [s1 EXCEPT !.req.phase = "redirect_received"]
  ELSE IF na.ret
    THEN [na.s EXCEPT !.req.phase = "auth_required"]
    ELSE NotifyFinalHeadersReceived(na.s)

RecordTimer(s) ==
  LET s0 == [s EXCEPT !.obs.timer.records = @ + 1] IN
  IF ~s0.job.request_creation_time_
    THEN [s0 EXCEPT !.obs.notreached = TRUE]
    ELSE [s0 EXCEPT !.job.request_creation_time_ = FALSE]

ResetTimer(s) ==
  LET s0 == [s EXCEPT !.obs.timer.resets = @ + 1] IN
  IF s0.job.request_creation_time_
    THEN [s0 EXCEPT !.obs.notreached = TRUE]
    ELSE [s0 EXCEPT !.job.request_creation_time_ = TRUE]

(* DoneWithRequest() without the test of done_.                            *)
DoneWithRequest_NoGuard(s, reason) ==
  [s EXCEPT !.job.done_ = TRUE,
            !.req.completions = Append(@, reason),
            !.obs.completion.notified =
               IF s.req.network_quality_estimator THEN @ + 1 ELSE @,
            !.obs.completion.recorded = @ + 1]

(* DoneWithRequest() that records the cause of every call.                 *)
DoneWithRequest_LastCauseWins(s, reason) ==
  IF s.job.done_
    THEN [s EXCEPT !.req.completions = <<reason>>]
    ELSE [s EXCEPT !.job.done_ = TRUE,
                   !.req.completions = Append(@, reason),
                   !.obs.completion.notified =
                      IF s.req.network_quality_estimator THEN @ + 1 ELSE @,
                   !.obs.completion.recorded = @ + 1]

(* NetworkQualityEstimator::NotifyRequestCompleted, when the context has   *)
(* an estimator, RecordCompletionHistograms(reason) and                    *)
(* set_received_response_content_length are counted.                       *)
DoneWithRequest(s, reason) ==
  IF s.job.done_
    THEN s
    ELSE [s EXCEPT !.job.done_ = TRUE,
                   !.req.completions = Append(@, reason),
                   !.obs.completion.notified =
                      IF s.req.network_quality_estimator THEN @ + 1 ELSE @,
                   !.obs.completion.recorded = @ + 1]

(* DestroyTransaction() without transaction_.reset().                      *)
DestroyTransaction_KeepsTransaction(s) ==
  LET s1 == DoneWithRequest(s, "ABORTED") IN
  [s1 EXCEPT
     !.job.total_received_bytes_from_previous_transactions_ =
        @ + s1.txn.received,
     !.job.total_sent_bytes_from_previous_transactions_ = @ + s1.txn.sent,
     !.job.response_info_ = FALSE,
     !.job.override_response_headers_ = NoHeaders,
     !.job.receive_headers_end_ = FALSE]

(* DestroyTransaction() that forgets the transaction's byte counters.      *)
DestroyTransaction_DropsCounters(s) ==
  LET s1 == DoneWithRequest(s, "ABORTED") IN
  [s1 EXCEPT
     !.job.transaction_ = FALSE,
     !.txn = NoTransaction,
     !.job.response_info_ = FALSE,
     !.job.override_response_headers_ = NoHeaders,
     !.job.receive_headers_end_ = FALSE]

DestroyTransaction(s) ==
  LET s1 == DoneWithRequest(s, "ABORTED") IN
  [s1 EXCEPT
     !.job.total_received_bytes_from_previous_transactions_ =
        @ + s1.txn.received,
     !.job.total_sent_bytes_from_previous_transactions_ = @ + s1.txn.sent,
     !.job.transaction_ = FALSE,
     !.txn = NoTransaction,
     !.job.response_info_ = FALSE,
     !.job.override_response_headers_ = NoHeaders,
     !.job.receive_headers_end_ = FALSE]

(* Kill() without weak_factory_.InvalidateWeakPtrs().                      *)
Kill_KeepsWeakPtrs(s) ==
  LET s2 == IF s.job.transaction_ THEN DestroyTransaction(s) ELSE s IN
  [s2 EXCEPT !.req.phase = "killed", !.req.killed = TRUE]

(* Kill() that also gives up the wait for the NetworkDelegate.             *)
Kill_ClearsAwaitingCallback(s) ==
  LET s1 == InvalidateWeakPtrs(s)
      s2 == IF s1.job.transaction_ THEN DestroyTransaction(s1) ELSE s1 IN
  [s2 EXCEPT !.req.phase = "killed", !.req.killed = TRUE,
             !.job.awaiting_callback_ = FALSE]

Kill(s) ==
  LET s1 == InvalidateWeakPtrs(s)
      s2 == IF s1.job.transaction_ THEN DestroyTransaction(s1) ELSE s1 IN
  [s2 EXCEPT !.req.phase = "killed", !.req.killed = TRUE]

GetTotalReceivedBytes(s) ==
  s.job.total_received_bytes_from_previous_transactions_ +
    (IF s.job.transaction_ THEN s.txn.received ELSE 0)

GetTotalSentBytes(s) ==
  s.job.total_sent_bytes_from_previous_transactions_ +
    (IF s.job.transaction_ THEN s.txn.sent ELSE 0)

DoneReading(s) == DoneWithRequest(s, "FINISHED")

(* The redirect is followed: the response is cached if the transaction's   *)
(* own headers are a redirect; otherwise the redirect comes from           *)
(* override_response_headers_ (DCHECK) and caching is stopped.             *)
DoneReadingRedirectResponse(s) ==
  LET s1 == IF ~s.job.transaction_ THEN s
            ELSE IF IsRedirect(s.txn.response.headers)
              THEN [s EXCEPT !.txn.caching = "done_reading"]
            ELSE [s EXCEPT
                    !.txn.caching = "stop_caching",
                    !.obs.check_failed =
                       @ \/ s.job.override_response_headers_ = NoHeaders
                         \/ ~IsRedirect(s.job.override_response_headers_)] IN
  DoneWithRequest(s1, "FINISHED")

NotifyURLRequestDestroyed(s) ==
  [s EXCEPT !.job.awaiting_callback_ = FALSE,
            !.obs.post_hook = IF @ = "pending" THEN "abandoned" ELSE @]

(* ~URLRequestHttpJob(): CHECK(!awaiting_callback_), DoneWithRequest, then *)
(* the members go: weak_factory_ and the transaction with its callback.    *)
(* The other fields keep the values the job had when it was destroyed.     *)
Destructor(s) ==
  LET s0 == IF s.job.awaiting_callback_
              THEN [s EXCEPT !.obs.dtor_check_failed = TRUE]
              ELSE s
      s1 == DoneWithRequest(s0, "ABORTED") IN
  [InvalidateWeakPtrs(s1) EXCEPT !.txn.cb = "none"]


(* ---------------------------------------------------------------------- *)
(* History bookkeeping (obs only)                                          *)
(* ---------------------------------------------------------------------- *)
(* What the write-after-receive protocol did for the current response:    *)
(* whether it began, the number N of Set-Cookie lines it has to handle,    *)
(* the lines resolved so far, the runs of NotifyHeadersComplete.           *)
(* What the pre-transaction hook answered in this attempt.                 *)
NoPreHook == [answered |-> FALSE, result |-> OK]

NoSave ==
  [began |-> FALSE, N |-> 0, resolved |-> {}, nhc |-> 0, written |-> {},
   unparsable |-> {}, server_time |-> 0, loop_low |-> FALSE,
   nhc_left |-> 0]

(* A new attempt begins with Start() and with every restart operation.     *)
NewAttempt(s, kind) ==
  [s EXCEPT !.req.error = OK,
            !.req.fatal = FALSE,
            !.obs.attempt = @ + 1,
            !.obs.kind = kind,
            !.obs.restart_origin = s.obs.origin,
            !.obs.ready_at_restart = s.txn.response.ready,
            !.obs.cookie_before = s.job.extra_cookie,
            !.obs.notes = NoNotes,
            !.obs.in_stack = {},
            !.obs.jar_read = "none",
            !.obs.start_path = "none",
            !.obs.issued = FALSE,
            !.obs.failure = FALSE,
            !.obs.cleared = TRUE,
            !.obs.save = NoSave,
            !.obs.na = NoNeedsAuth,
            !.obs.cookie_read = NoCookieRead,
            !.obs.post_hook = "none",
            !.obs.pre_hook = NoPreHook,
            !.obs.throttled = FALSE]

(* ---------------------------------------------------------------------- *)
(* The transaction-start path                                              *)
(* ---------------------------------------------------------------------- *)
(* in.start is what Start / RestartWithAuth returns; the transaction keeps *)
(* the completion callback (base::Unretained) while it is pending.         *)
(* Start is issued without asking the throttling entry.                   *)
StartTransactionInternal_IgnoresThrottle(s, in) ==
  LET restart == s.job.transaction_
      rv == IF restart THEN in.start
            ELSE IF s.req.ws_without_helper THEN ERR_DISALLOWED_URL_SCHEME
            ELSE in.start
      issued == restart \/ ~s.req.ws_without_helper
      s1 == [s EXCEPT
               !.job.transaction_ = TRUE,
               !.job.auth_credentials_ =
                  IF restart THEN NoCredentials ELSE @,
               !.txn.cb = IF issued /\ rv = ERR_IO_PENDING THEN "start" ELSE "none",
               !.txn.response = NoResponse,
               !.txn.request_cookie =
                  IF issued THEN s.job.extra_cookie ELSE @,
               !.txn.request_headers =
                  IF issued THEN s.job.extra_headers ELSE @,
               !.obs.issued = issued,
               !.obs.throttled = in.throttle,
               !.obs.sent_credentials =
                  IF restart THEN s.job.auth_credentials_ ELSE @] IN
  IF rv = ERR_IO_PENDING
    THEN s1
    ELSE PostTask(MarkSync(s1, "txn_start"), "OnStartCompleted", rv)

StartTransactionInternal(s, in) ==
  LET restart == s.job.transaction_
      rv == IF restart THEN in.start
            ELSE IF s.req.ws_without_helper THEN ERR_DISALLOWED_URL_SCHEME
            ELSE IF in.throttle THEN ERR_TEMPORARILY_THROTTLED
            ELSE in.start
      issued == restart \/ (~s.req.ws_without_helper /\ ~in.throttle)
      s1 == [s EXCEPT
               !.job.transaction_ = TRUE,
               !.job.auth_credentials_ =
                  IF restart THEN NoCredentials ELSE @,
               !.txn.cb = IF issued /\ rv = ERR_IO_PENDING THEN "start" ELSE "none",
               !.txn.response = NoResponse,
               !.txn.request_cookie =
                  IF issued THEN s.job.extra_cookie ELSE @,
               !.txn.request_headers =
                  IF issued THEN s.job.extra_headers ELSE @,
               !.obs.issued = issued,
               !.obs.throttled = in.throttle,
               !.obs.sent_credentials =
                  IF restart THEN s.job.auth_credentials_ ELSE @] IN
  IF rv = ERR_IO_PENDING
    THEN s1
    ELSE PostTask(MarkSync(s1, "txn_start"), "OnStartCompleted", rv)

CertificateErrorSeen(s, result, policy_fatal) ==
  [s EXCEPT !.obs.cert =
              [seen |-> TRUE, result |-> result,
               policy_fatal |-> policy_fatal]]

PreHookAnswered(s, result) ==
  [s EXCEPT !.obs.pre_hook = [answered |-> TRUE, result |-> result]]

(* The rejection is handed to the consumer inside the hook's stack.        *)
MaybeStartTransactionInternal_Direct(s, result, in) ==
  IF result = OK
    THEN StartTransactionInternal(PreHookAnswered(s, result), in)
    ELSE NotifyStartError([PreHookAnswered(s, result) EXCEPT
                             !.obs.failure = TRUE], result)

(* The transaction is started whatever the hook answered.                  *)
MaybeStartTransactionInternal_StartsOnReject(s, result, in) ==
  IF result = OK
    THEN StartTransactionInternal(PreHookAnswered(s, result), in)
    ELSE PostTask(StartTransactionInternal(
                    [PreHookAnswered(s, result) EXCEPT !.obs.failure = TRUE],
                    [in EXCEPT !.start = ERR_IO_PENDING]),
                  "NotifyStartError", result)

MaybeStartTransactionInternal(s, result, in) ==
  IF result = OK
    THEN StartTransactionInternal(PreHookAnswered(s, result), in)
    ELSE PostTask([PreHookAnswered(s, result) EXCEPT !.obs.failure = TRUE],
                  "NotifyStartError", result)

StartTransaction(s, in) ==
  LET s1 == [s EXCEPT !.obs.start_path = "StartTransaction"] IN
  IF s1.req.network_delegate
    THEN IF in.pre_hook = ERR_IO_PENDING
           THEN BindWeak(s1, "NotifyBeforeStartTransactionCallback", 0)
           ELSE MaybeStartTransactionInternal(MarkSync(s1, "pre_hook"),
                                              in.pre_hook, in)
    ELSE StartTransactionInternal(s1, in)

(* The handler that sets the Cookie header in privacy mode as well.        *)
SetCookieHeaderAndStart_IgnoresPrivacyMode(s, lists, in) ==
  LET split == AnnotateAndMoveUserBlockedCookies(lists.included,
                                                 lists.excluded)
      set_header == split.included # <<>>
      s1 == [s EXCEPT
               !.obs.jar_read =
                  IF AnnotateAndMoveUserBlockedCookies(
                       lists.included, lists.excluded).included # <<>>
                    THEN "cookies" ELSE "empty",
               !.obs.cookie_read =
                  [done |-> TRUE, lists |-> lists, set_header |-> set_header],
               !.job.extra_cookie =
                  IF set_header THEN <<"jar", s.obs.attempt>> ELSE @,
               !.req.maybe_sent_cookies = split.excluded \o split.included] IN
  StartTransaction(s1, in)

(* lists: the cookies_with_access_result_list and the excluded_list of the *)
(* jar.  The Cookie header names the attempt whose read built it.          *)
SetCookieHeaderAndStart(s, lists, in) ==
  LET split == IF s.req.privacy_mode
                 THEN [included |-> <<>>,
                       excluded |-> AddExclusionReason(
                                      lists.excluded \o lists.included,
                                      EXCLUDE_USER_PREFERENCES)]
                 ELSE AnnotateAndMoveUserBlockedCookies(lists.included,
                                                        lists.excluded)
      set_header == ~s.req.privacy_mode /\ split.included # <<>>
      s1 == [s EXCEPT
               !.obs.jar_read =
                  IF AnnotateAndMoveUserBlockedCookies(
                       lists.included, lists.excluded).included # <<>>
                    THEN "cookies" ELSE "empty",
               !.obs.cookie_read =
                  [done |-> TRUE, lists |-> lists, set_header |-> set_header],
               !.job.extra_cookie =
                  IF set_header THEN <<"jar", s.obs.attempt>> ELSE @,
               !.req.maybe_sent_cookies = split.excluded \o split.included] IN
  StartTransaction(s1, in)

(* The transaction is started while the jar's answer is outstanding.       *)
AddCookieHeaderAndStart_StartsBeforeRead(s, in) ==
  IF s.req.cookie_store /\ s.req.allow_credentials
    THEN IF in.jar_read = "pending"
           THEN StartTransaction(BindWeak(s, "SetCookieHeaderAndStart", 0), in)
           ELSE SetCookieHeaderAndStart(
                  MarkSync(s, "jar_read"),
                  IF in.jar_read = "sync_cookies"
                    THEN OneCookieLists ELSE NoCookieLists,
                  in)
    ELSE StartTransaction([s EXCEPT !.obs.jar_read = "not_queried"], in)

AddCookieHeaderAndStart(s, in) ==
  IF s.req.cookie_store /\ s.req.allow_credentials
    THEN IF in.jar_read = "pending"
           THEN BindWeak(s, "SetCookieHeaderAndStart", 0)
           ELSE SetCookieHeaderAndStart(
                  MarkSync(s, "jar_read"),
                  IF in.jar_read = "sync_cookies"
                    THEN OneCookieLists ELSE NoCookieLists,
                  in)
    ELSE StartTransaction([s EXCEPT !.obs.jar_read = "not_queried"], in)

(* The restart without RemoveHeader(HttpRequestHeaders::kCookie).          *)
RestartTransactionWithAuth_KeepsCookie(s, credentials, kind, in) ==
  LET s1 == NewAttempt(s, kind)
      s2 == [s1 EXCEPT !.job.auth_credentials_ = credentials,
                       !.job.response_info_ = FALSE,
                       !.job.override_response_headers_ = NoHeaders,
                       !.job.receive_headers_end_ = FALSE]
      s3 == ResetTimer(s2)
      s4 == [s3 EXCEPT !.req.maybe_sent_cookies = <<>>,
                       !.req.maybe_stored_cookies = <<>>]
      s5 == AddCookieHeaderAndStart(s4, in) IN
  [s5 EXCEPT !.obs.cleared =
               /\ ~s5.job.response_info_
               /\ s5.job.override_response_headers_ = NoHeaders
               /\ ~s5.job.receive_headers_end_]

(* The restart that leaves the request's published cookie lists alone.     *)
RestartTransactionWithAuth_KeepsPublishedLists(s, credentials, kind, in) ==
  LET s1 == NewAttempt(s, kind)
      s2 == [s1 EXCEPT !.job.auth_credentials_ = credentials,
                       !.job.response_info_ = FALSE,
                       !.job.override_response_headers_ = NoHeaders,
                       !.job.receive_headers_end_ = FALSE]
      s3 == ResetTimer(s2)
      s4 == [s3 EXCEPT !.job.extra_cookie = NoCookie]
      s5 == AddCookieHeaderAndStart(s4, in) IN
  [s5 EXCEPT !.obs.cleared =
               /\ ~s5.job.response_info_
               /\ s5.job.override_response_headers_ = NoHeaders
               /\ ~s5.job.receive_headers_end_]

RestartTransactionWithAuth(s, credentials, kind, in) ==
  LET s1 == NewAttempt(s, kind)
      s2 == [s1 EXCEPT !.job.auth_credentials_ = credentials,
                       !.job.response_info_ = FALSE,
                       !.job.override_response_headers_ = NoHeaders,
                       !.job.receive_headers_end_ = FALSE]
      s3 == ResetTimer(s2)
      s4 == [s3 EXCEPT !.job.extra_cookie = NoCookie,
                       !.req.maybe_sent_cookies = <<>>,
                       !.req.maybe_stored_cookies = <<>>]
      s5 == AddCookieHeaderAndStart(s4, in) IN
  [s5 EXCEPT !.obs.cleared =
               /\ ~s5.job.response_info_
               /\ s5.job.override_response_headers_ = NoHeaders
               /\ ~s5.job.receive_headers_end_]

(* ---------------------------------------------------------------------- *)
(* Headers complete and the Set-Cookie fan-in                              *)
(* ---------------------------------------------------------------------- *)
(* What the TransportSecurityState is handed is kept with the ssl_info of  *)
(* the response and the kind of host it came with.                         *)
SecurityReceipt(s) ==
  [is_valid |-> s.txn.response.ssl_info.is_valid,
   cert_status |-> s.txn.response.ssl_info.cert_status,
   host_is_ip |-> s.req.host_is_ip]

(* HSTS processing without the test for an IP address host.                *)
ProcessStrictTransportSecurityHeader_AcceptsIPHost(s) ==
  LET ssl_info == s.txn.response.ssl_info IN
  IF ~ssl_info.is_valid \/ IsCertStatusError(ssl_info.cert_status)
       \/ ~s.req.transport_security_state
    THEN s
  ELSE IF GetResponseHeaders(s).sts
    THEN [s EXCEPT !.obs.hsts_received = @ \cup {SecurityReceipt(s)}]
  ELSE s

ProcessStrictTransportSecurityHeader(s) ==
  LET ssl_info == s.txn.response.ssl_info IN
  IF ~ssl_info.is_valid \/ IsCertStatusError(ssl_info.cert_status)
       \/ ~s.req.transport_security_state
    THEN s
  ELSE IF s.req.host_is_ip
    THEN s
  ELSE IF GetResponseHeaders(s).sts
    THEN [s EXCEPT !.obs.hsts_received = @ \cup {SecurityReceipt(s)}]
  ELSE s

ProcessExpectCTHeader(s) ==
  LET ssl_info == s.txn.response.ssl_info IN
  IF ~ssl_info.is_valid \/ IsCertStatusError(ssl_info.cert_status)
       \/ ~s.req.transport_security_state
    THEN s
  ELSE IF GetResponseHeaders(s).expect_ct
    THEN [s EXCEPT !.obs.expect_ct_received = @ \cup {SecurityReceipt(s)}]
  ELSE s

(* The restart taken on any authentication challenge, ready or not.       *)
NotifyHeadersComplete_RestartsOnChallenge(s, in) ==
  LET s0 == ProcessExpectCTHeader(ProcessStrictTransportSecurityHeader(
              [s EXCEPT !.job.response_info_ = s.txn.response.present]))
      s1 == [s0 EXCEPT !.obs.save.nhc = @ + 1,
                       !.obs.save.nhc_left = s.job.num_cookie_lines_left_,
                       !.obs.nhc_early =
                          @ \/ (s.obs.save.resolved # 1..s.obs.save.N),
                       !.obs.nhc_twice = @ \/ (s.obs.save.nhc > 0),
                       !.job.set_cookie_access_result_list_ = <<>>,
                       !.req.maybe_stored_cookies =
                          s.job.set_cookie_access_result_list_,
                       !.obs.pub =
                          [done |-> TRUE,
                           list |-> s.job.set_cookie_access_result_list_,
                           lines |-> GetResponseHeaders(s).lines,
                           nhc |-> s.obs.save.nhc + 1,
                           written |-> s.obs.save.written,
                           ready |-> s.txn.response.ready,
                           sts |-> GetResponseHeaders(s).sts,
                           expect_ct |-> GetResponseHeaders(s).expect_ct,
                           clean_tls |->
                              /\ s.txn.response.ssl_info.is_valid
                              /\ ~IsCertStatusError(
                                    s.txn.response.ssl_info.cert_status)]] IN
  IF s1.txn.response.ready
       \/ (s1.txn.response.headers.code \in {401, 407}
             /\ s1.obs.attempt <= MaxRestarts)
    THEN RestartTransactionWithAuth(s1, NoCredentials, "auto", in)
    ELSE URLRequestJob_NotifyHeadersComplete(s1)

(* The list is copied to the request and stays with the job.               *)
NotifyHeadersComplete_CopiesList(s, in) ==
  LET s0 == ProcessExpectCTHeader(ProcessStrictTransportSecurityHeader(
              [s EXCEPT !.job.response_info_ = s.txn.response.present]))
      s1 == [s0 EXCEPT !.obs.save.nhc = @ + 1,
                       !.obs.save.nhc_left = s.job.num_cookie_lines_left_,
                       !.obs.nhc_early =
                          @ \/ (s.obs.save.resolved # 1..s.obs.save.N),
                       !.obs.nhc_twice = @ \/ (s.obs.save.nhc > 0),
                       !.req.maybe_stored_cookies =
                          s.job.set_cookie_access_result_list_,
                       !.obs.pub =
                          [done |-> TRUE,
                           list |-> s.job.set_cookie_access_result_list_,
                           lines |-> GetResponseHeaders(s).lines,
                           nhc |-> s.obs.save.nhc + 1,
                           written |-> s.obs.save.written,
                           ready |-> s.txn.response.ready,
                           sts |-> GetResponseHeaders(s).sts,
                           expect_ct |-> GetResponseHeaders(s).expect_ct,
                           clean_tls |->
                              /\ s.txn.response.ssl_info.is_valid
                              /\ ~IsCertStatusError(
                                    s.txn.response.ssl_info.cert_status)]] IN
  IF s1.txn.response.ready
    THEN RestartTransactionWithAuth(s1, NoCredentials, "auto", in)
    ELSE URLRequestJob_NotifyHeadersComplete(s1)

NotifyHeadersComplete(s, in) ==
  LET s0 == ProcessExpectCTHeader(ProcessStrictTransportSecurityHeader(
              [s EXCEPT !.job.response_info_ = s.txn.response.present]))
      s1 == [s0 EXCEPT !.obs.save.nhc = @ + 1,
                       !.obs.save.nhc_left = s.job.num_cookie_lines_left_,
                       !.obs.nhc_early =
                          @ \/ (s.obs.save.resolved # 1..s.obs.save.N),
                       !.obs.nhc_twice = @ \/ (s.obs.save.nhc > 0),
                       !.job.set_cookie_access_result_list_ = <<>>,
                       !.req.maybe_stored_cookies =
                          s.job.set_cookie_access_result_list_,
                       !.obs.pub =
                          [done |-> TRUE,
                           list |-> s.job.set_cookie_access_result_list_,
                           lines |-> GetResponseHeaders(s).lines,
                           nhc |-> s.obs.save.nhc + 1,
                           written |-> s.obs.save.written,
                           ready |-> s.txn.response.ready,
                           sts |-> GetResponseHeaders(s).sts,
                           expect_ct |-> GetResponseHeaders(s).expect_ct,
                           clean_tls |->
                              /\ s.txn.response.ssl_info.is_valid
                              /\ ~IsCertStatusError(
                                    s.txn.response.ssl_info.cert_status)]] IN
  IF s1.txn.response.ready
    THEN RestartTransactionWithAuth(s1, NoCredentials, "auto", in)
    ELSE URLRequestJob_NotifyHeadersComplete(s1)

(* The jar's answer recorded without the decrement of the counter.         *)
OnSetCookieResult_KeepsCounter(s, line, status, in) ==
  LET s1 == [s EXCEPT !.job.set_cookie_access_result_list_ =
                         Append(@, [line |-> line, status |-> status]),
                      !.obs.save.resolved = @ \cup {line}] IN
  IF s1.job.num_cookie_lines_left_ = 0
    THEN NotifyHeadersComplete(s1, in)
    ELSE s1

OnSetCookieResult(s, line, status, in) ==
  LET s1 == [s EXCEPT !.job.set_cookie_access_result_list_ =
                         Append(@, [line |-> line, status |-> status]),
                      !.job.num_cookie_lines_left_ = @ - 1,
                      !.obs.save.resolved = @ \cup {line}] IN
  IF s1.job.num_cookie_lines_left_ = 0
    THEN NotifyHeadersComplete(s1, in)
    ELSE s1

(* The status CanonicalCookie::Create returns for line i, with the reason  *)
(* CanSetCookie adds to it. kinds[i] says how Set-Cookie line i resolves:  *)
(* "unparsable" (Create returns no cookie), "reject" (CanSetCookie         *)
(* refuses the cookie), "sync" (the jar runs the callback inside           *)
(* SetCanonicalCookieAsync), "pending" (the jar runs it later).            *)
ReturnedStatus(kind) ==
  IF kind = "unparsable" THEN {EXCLUDE_FAILURE_TO_STORE}
  ELSE IF kind = "reject" THEN {EXCLUDE_USER_PREFERENCES}
  ELSE {}

IsInclude(status) == status = {}

(* The status the jar reports for a cookie it was handed.                  *)
JarStatus == {}

(* Every line is handed to the jar, whatever its status.                   *)
RECURSIVE SetCookieLoop_SubmitsExcluded(_, _, _, _, _)
SetCookieLoop_SubmitsExcluded(s, i, n, kinds, in) ==
  IF i > n
    THEN s
    ELSE LET s1 == [s EXCEPT !.job.num_cookie_lines_left_ = @ + 1]
             s2 == [s1 EXCEPT !.obs.save.written = @ \cup {i}]
             s3 == IF kinds[i] = "pending"
                     THEN BindWeak(s2, "OnSetCookieResult", i)
                     ELSE OnSetCookieResult(MarkSync(s2, "jar_write"), i,
                                            JarStatus, in) IN
         SetCookieLoop_SubmitsExcluded(s3, i + 1, n, kinds, in)

(* The counter as the loop finds it after a line was handled.              *)
LineHandled(s) ==
  [s EXCEPT !.obs.save.loop_low = @ \/ s.job.num_cookie_lines_left_ < 1]

(* The counter is incremented after the line was handled.                  *)
RECURSIVE SetCookieLoop_IncrementsAfter(_, _, _, _, _)
SetCookieLoop_IncrementsAfter(s, i, n, kinds, in) ==
  IF i > n
    THEN s
    ELSE LET returned_status == ReturnedStatus(kinds[i])
             s2 == [s EXCEPT !.obs.save.written = @ \cup {i}]
             s3 == IF ~IsInclude(returned_status)
                     THEN OnSetCookieResult(s, i, returned_status, in)
                   ELSE IF kinds[i] = "sync"
                     THEN OnSetCookieResult(MarkSync(s2, "jar_write"), i,
                                            JarStatus, in)
                   ELSE BindWeak(s2, "OnSetCookieResult", i)
             s4 == LineHandled(s3)
             s5 == [s4 EXCEPT !.job.num_cookie_lines_left_ = @ + 1] IN
         SetCookieLoop_IncrementsAfter(s5, i + 1, n, kinds, in)

RECURSIVE SetCookieLoop(_, _, _, _, _)
SetCookieLoop(s, i, n, kinds, in) ==
  IF i > n
    THEN s
    ELSE LET s1 == [s EXCEPT !.job.num_cookie_lines_left_ = @ + 1]
             returned_status == ReturnedStatus(kinds[i])
             s2 == [s1 EXCEPT !.obs.save.written = @ \cup {i}]
             s3 == IF ~IsInclude(returned_status)
                     THEN OnSetCookieResult(s1, i, returned_status, in)
                   ELSE IF kinds[i] = "sync"
                     THEN OnSetCookieResult(MarkSync(s2, "jar_write"), i,
                                            JarStatus, in)
                   ELSE BindWeak(s2, "OnSetCookieResult", i) IN
         SetCookieLoop(LineHandled(s3), i + 1, n, kinds, in)

(* The counter does not count the enumeration loop itself.                 *)
SaveCookiesAndNotifyHeadersComplete_NoLoopGuard(s, result, kinds, in) ==
  LET s0 == IF s.job.num_cookie_lines_left_ # 0
                 \/ s.job.set_cookie_access_result_list_ # <<>>
              THEN [s EXCEPT !.obs.save_check_failed = TRUE]
              ELSE s IN
  IF result # OK
    THEN NotifyStartError([s0 EXCEPT !.obs.failure = TRUE], result)
    ELSE
      LET n == GetResponseHeaders(s0).lines
          s1 == [s0 EXCEPT !.obs.save =
                             [NoSave EXCEPT
                                !.began = TRUE, !.N = n,
                                !.unparsable =
                                   GetResponseHeaders(s0).unparsable]] IN
      IF s1.req.do_not_save_cookies \/ ~s1.req.cookie_store
        THEN NotifyHeadersComplete(s1, in)
        ELSE
          LET s2 == [s1 EXCEPT !.job.num_cookie_lines_left_ = 0,
                               !.obs.save.server_time =
                                  GetResponseHeaders(s1).date]
              s3 == SetCookieLoop(s2, 1, n, kinds, in) IN
          IF s3.job.num_cookie_lines_left_ = 0
            THEN NotifyHeadersComplete(s3, in)
            ELSE s3

(* The count of the enumeration loop is tested but not taken back.         *)
SaveCookiesAndNotifyHeadersComplete_KeepsLoopCount(s, result, kinds, in) ==
  LET s0 == IF s.job.num_cookie_lines_left_ # 0
                 \/ s.job.set_cookie_access_result_list_ # <<>>
              THEN [s EXCEPT !.obs.save_check_failed = TRUE]
              ELSE s IN
  IF result # OK
    THEN NotifyStartError([s0 EXCEPT !.obs.failure = TRUE], result)
    ELSE
      LET n == GetResponseHeaders(s0).lines
          s1 == [s0 EXCEPT !.obs.save =
                             [NoSave EXCEPT
                                !.began = TRUE, !.N = n,
                                !.unparsable =
                                   GetResponseHeaders(s0).unparsable]] IN
      IF s1.req.do_not_save_cookies \/ ~s1.req.cookie_store
        THEN NotifyHeadersComplete(s1, in)
        ELSE
          LET s2 == [s1 EXCEPT !.job.num_cookie_lines_left_ = 1,
                               !.obs.save.server_time =
                                  GetResponseHeaders(s1).date]
              s3 == SetCookieLoop(s2, 1, n, kinds, in) IN
          IF s3.job.num_cookie_lines_left_ = 1
            THEN NotifyHeadersComplete(s3, in)
            ELSE s3

SaveCookiesAndNotifyHeadersComplete(s, result, kinds, in) ==
  LET s0 == IF s.job.num_cookie_lines_left_ # 0
                 \/ s.job.set_cookie_access_result_list_ # <<>>
              THEN [s EXCEPT !.obs.save_check_failed = TRUE]
              ELSE s IN
  IF result # OK
    THEN NotifyStartError([s0 EXCEPT !.obs.failure = TRUE], result)
    ELSE
      LET n == GetResponseHeaders(s0).lines
          s1 == [s0 EXCEPT !.obs.save =
                             [NoSave EXCEPT
                                !.began = TRUE, !.N = n,
                                !.unparsable =
                                   GetResponseHeaders(s0).unparsable]] IN
      IF s1.req.do_not_save_cookies \/ ~s1.req.cookie_store
        THEN NotifyHeadersComplete(s1, in)
        ELSE
          LET s2 == [s1 EXCEPT !.job.num_cookie_lines_left_ = 1,
                               !.obs.save.server_time =
                                  GetResponseHeaders(s1).date]
              s3 == SetCookieLoop(s2, 1, n, kinds, in)
              s4 == [s3 EXCEPT !.job.num_cookie_lines_left_ = @ - 1] IN
          IF s4.job.num_cookie_lines_left_ = 0
            THEN NotifyHeadersComplete(s4, in)
            ELSE s4


(* ---------------------------------------------------------------------- *)
(* Transaction completion                                                  *)
(* ---------------------------------------------------------------------- *)
(* h.hook: what NetworkDelegate::NotifyHeadersReceived returns; h.ovr: what *)
(* it stores through &override_response_headers_; h.kinds: how the         *)
(* Set-Cookie lines resolve; h.fatal: ShouldSSLErrorsBeFatal(host).        *)
(* OnStartCompleted() without the test of done_.                           *)
OnStartCompleted_IgnoresDone(s, result, h, in) ==
  LET s0 == [RecordTimer(s) EXCEPT
               !.obs.started_on_done = IF s.job.done_ THEN @ + 1 ELSE @]
      s1 == [s0 EXCEPT !.job.receive_headers_end_ = TRUE] IN
  IF result = OK
    THEN SaveCookiesAndNotifyHeadersComplete(s1, OK, h.kinds, in)
    ELSE NotifyStartError([s1 EXCEPT !.obs.failure = TRUE], result)

(* A rejection by the post-headers hook that falls through to the cookie   *)
(* handling.                                                               *)
OnStartCompleted_NoReturnOnReject(s, result, h, in) ==
  LET s0 == [RecordTimer(s) EXCEPT
               !.obs.started_on_done = IF s.job.done_ THEN @ + 1 ELSE @] IN
  IF s0.job.done_
    THEN s0
    ELSE
      LET s1 == [s0 EXCEPT !.job.receive_headers_end_ = TRUE] IN
      IF result = OK
        THEN IF s1.req.network_delegate
               THEN IF h.hook = ERR_IO_PENDING
                      THEN BindWeak([s1 EXCEPT !.job.awaiting_callback_ = TRUE,
                                               !.obs.post_hook = "pending"],
                                    "OnHeadersReceivedCallback", 0)
                    ELSE IF h.hook # OK
                      THEN SaveCookiesAndNotifyHeadersComplete(
                             NotifyStartError(
                               [MarkSync(s1, "post_hook") EXCEPT
                                  !.obs.failure = TRUE,
                                  !.obs.post_hook = "rejected"], h.hook),
                             OK, h.kinds, in)
                    ELSE SaveCookiesAndNotifyHeadersComplete(
                           [MarkSync(s1, "post_hook") EXCEPT
                              !.job.override_response_headers_ = h.ovr,
                              !.obs.post_hook = "approved"],
                           OK, h.kinds, in)
               ELSE SaveCookiesAndNotifyHeadersComplete(s1, OK, h.kinds, in)
      ELSE IF IsCertificateError(result)
        THEN NotifySSLCertificateError(
               CertificateErrorSeen(s1, result, h.fatal), result,
               h.fatal /\ result # ERR_CERT_KNOWN_INTERCEPTION_BLOCKED)
      ELSE IF result = ERR_SSL_CLIENT_AUTH_CERT_NEEDED
        THEN NotifyCertificateRequested(s1)
      ELSE
        LET s2 == IF s1.job.transaction_
                    THEN [s1 EXCEPT !.job.response_info_ =
                                       s1.txn.response.present]
                    ELSE s1 IN
        NotifyStartError([s2 EXCEPT !.obs.failure = TRUE], result)

(* The fatal flag is the host policy, for every certificate error.         *)
OnStartCompleted_FatalByPolicyAlone(s, result, h, in) ==
  LET s0 == [RecordTimer(s) EXCEPT
               !.obs.started_on_done = IF s.job.done_ THEN @ + 1 ELSE @] IN
  IF s0.job.done_
    THEN s0
    ELSE
      LET s1 == [s0 EXCEPT !.job.receive_headers_end_ = TRUE] IN
      IF result = OK
        THEN IF s1.req.network_delegate
               THEN IF h.hook = ERR_IO_PENDING
                      THEN BindWeak([s1 EXCEPT !.job.awaiting_callback_ = TRUE,
                                               !.obs.post_hook = "pending"],
                                    "OnHeadersReceivedCallback", 0)
                    ELSE IF h.hook # OK
                      THEN NotifyStartError(
                             [MarkSync(s1, "post_hook") EXCEPT
                                !.obs.failure = TRUE,
                                !.obs.post_hook = "rejected"], h.hook)
                    ELSE SaveCookiesAndNotifyHeadersComplete(
                           [MarkSync(s1, "post_hook") EXCEPT
                              !.job.override_response_headers_ = h.ovr,
                              !.obs.post_hook = "approved"],
                           OK, h.kinds, in)
               ELSE SaveCookiesAndNotifyHeadersComplete(s1, OK, h.kinds, in)
      ELSE IF IsCertificateError(result)
        THEN NotifySSLCertificateError(
               CertificateErrorSeen(s1, result, h.fatal), result,
               h.fatal)
      ELSE IF result = ERR_SSL_CLIENT_AUTH_CERT_NEEDED
        THEN NotifyCertificateRequested(s1)
      ELSE
        LET s2 == IF s1.job.transaction_
                    THEN [s1 EXCEPT !.job.response_info_ =
                                       s1.txn.response.present]
                    ELSE s1 IN
        NotifyStartError([s2 EXCEPT !.obs.failure = TRUE], result)

OnStartCompleted(s, result, h, in) ==
  LET s0 == [RecordTimer(s) EXCEPT
               !.obs.started_on_done = IF s.job.done_ THEN @ + 1 ELSE @] IN
  IF s0.job.done_
    THEN s0
    ELSE
      LET s1 == [s0 EXCEPT !.job.receive_headers_end_ = TRUE] IN
      IF result = OK
        THEN IF s1.req.network_delegate
               THEN IF h.hook = ERR_IO_PENDING
                      THEN BindWeak([s1 EXCEPT !.job.awaiting_callback_ = TRUE,
                                               !.obs.post_hook = "pending"],
                                    "OnHeadersReceivedCallback", 0)
                    ELSE IF h.hook # OK
                      THEN NotifyStartError(
                             [MarkSync(s1, "post_hook") EXCEPT
                                !.obs.failure = TRUE,
                                !.obs.post_hook = "rejected"], h.hook)
                    ELSE SaveCookiesAndNotifyHeadersComplete(
                           [MarkSync(s1, "post_hook") EXCEPT
                              !.job.override_response_headers_ = h.ovr,
                              !.obs.post_hook = "approved"],
                           OK, h.kinds, in)
               ELSE SaveCookiesAndNotifyHeadersComplete(s1, OK, h.kinds, in)
      ELSE IF IsCertificateError(result)
        THEN NotifySSLCertificateError(
               CertificateErrorSeen(s1, result, h.fatal), result,
               h.fatal /\ result # ERR_CERT_KNOWN_INTERCEPTION_BLOCKED)
      ELSE IF result = ERR_SSL_CLIENT_AUTH_CERT_NEEDED
        THEN NotifyCertificateRequested(s1)
      ELSE
        LET s2 == IF s1.job.transaction_
                    THEN [s1 EXCEPT !.job.response_info_ =
                                       s1.txn.response.present]
                    ELSE s1 IN
        NotifyStartError([s2 EXCEPT !.obs.failure = TRUE], result)

OnHeadersReceivedCallback(s, result, h, in) ==
  LET s1 == [s EXCEPT !.job.awaiting_callback_ = FALSE,
                      !.job.override_response_headers_ = h.ovr,
                      !.obs.post_hook =
                         IF result = OK THEN "approved" ELSE "rejected"] IN
  SaveCookiesAndNotifyHeadersComplete(s1, result, h.kinds, in)

(* ---------------------------------------------------------------------- *)
(* Consumer entry points                                                   *)
(* ---------------------------------------------------------------------- *)
(* The first test of the chain that the host passes, or 0.                 *)
FirstMarker(url) ==
  IF \E m \in 1..Len(HostMarkers) :
       /\ HostMarkers[m] \in url.host_contains
       /\ HostMarkers[m] = "news.google.com" => url.path_match
    THEN CHOOSE m \in 1..Len(HostMarkers) :
           /\ HostMarkers[m] \in url.host_contains
           /\ HostMarkers[m] = "news.google.com" => url.path_match
           /\ \A k \in 1..(m - 1) :
                ~(/\ HostMarkers[k] \in url.host_contains
                  /\ HostMarkers[k] = "news.google.com" => url.path_match)
    ELSE 0

SetHeaderIfMissing(value, new) == IF value = "missing" THEN new ELSE value

(* AddExtraHeaders: the default Accept-Language.                           *)
AddExtraHeaders(s) ==
  LET settings == s.req.http_user_agent_settings IN
  IF settings.exists /\ settings.feature /\ ~settings.accept_language_empty
    THEN [s EXCEPT !.job.extra_headers.accept_language =
                      SetHeaderIfMissing(@, "default")]
    ELSE s

Start(s, in) ==
  LET s1 == NewAttempt(s, "start")
      s2 == [s1 EXCEPT !.job.extra_headers.user_agent =
                          SetHeaderIfMissing(
                            @, IF s.req.http_user_agent_settings.exists
                                 THEN "default" ELSE "empty")]
      m == FirstMarker(s.req.url)
      s3 == IF m = 0 THEN s2
            ELSE [s2 EXCEPT !.job.extra_headers.user_agent = FixedUserAgent[m],
                            !.job.extra_cookie =
                               IF HostMarkers[m] = "news.google.com"
                                 THEN ConsentCookie ELSE @] IN
  AddCookieHeaderAndStart(AddExtraHeaders(s3), in)

SetExtraRequestHeaders(s, headers) == [s EXCEPT !.job.extra_headers = headers]

(* SetAuth() that marks both auth states satisfied.                        *)
SetAuth_BothSatisfied(s, credentials, in) ==
  LET s1 == [s EXCEPT !.job.proxy_auth_state_ = AUTH_STATE_HAVE_AUTH,
                      !.job.server_auth_state_ = AUTH_STATE_HAVE_AUTH] IN
  RestartTransactionWithAuth([s1 EXCEPT !.req.phase = "waiting"],
                             credentials, "SetAuth", in)

(* SetAuth() that leaves the auth states as they are.                      *)
SetAuth_KeepsNeeded(s, credentials, in) ==
  RestartTransactionWithAuth([s EXCEPT !.req.phase = "waiting"],
                             credentials, "SetAuth", in)

SetAuth(s, credentials, in) ==
  LET s1 == IF s.job.proxy_auth_state_ = AUTH_STATE_NEED_AUTH
              THEN [s EXCEPT !.job.proxy_auth_state_ = AUTH_STATE_HAVE_AUTH]
              ELSE [s EXCEPT !.job.server_auth_state_ = AUTH_STATE_HAVE_AUTH] IN
  RestartTransactionWithAuth([s1 EXCEPT !.req.phase = "waiting"],
                             credentials, "SetAuth", in)

(* DCHECK(!NeedsAuth()) calls NeedsAuth() in builds with DCHECKs on.       *)
CheckNotNeedsAuth(s, dcheck_is_on) ==
  IF dcheck_is_on
    THEN LET na == NeedsAuth(s) IN
         [na.s EXCEPT !.obs.cancel_dcheck_failed = @ \/ na.ret]
    ELSE s

(* CancelAuth() that records the state SetAuth() records.                  *)
CancelAuth_MarksSatisfied(s, dcheck_is_on) ==
  LET s1 == IF s.job.proxy_auth_state_ = AUTH_STATE_NEED_AUTH
              THEN [s EXCEPT !.job.proxy_auth_state_ = AUTH_STATE_HAVE_AUTH]
              ELSE [s EXCEPT !.job.server_auth_state_ = AUTH_STATE_HAVE_AUTH]
      s2 == CheckNotNeedsAuth(s1, dcheck_is_on) IN
  PostTask([s2 EXCEPT !.req.phase = "waiting"], "NotifyFinalHeadersReceived", 0)

(* CancelAuth() that tells the consumer before it returns.                 *)
CancelAuth_NotifiesInStack(s, dcheck_is_on) ==
  LET s1 == IF s.job.proxy_auth_state_ = AUTH_STATE_NEED_AUTH
              THEN [s EXCEPT !.job.proxy_auth_state_ = AUTH_STATE_CANCELED]
              ELSE [s EXCEPT !.job.server_auth_state_ = AUTH_STATE_CANCELED]
      s2 == CheckNotNeedsAuth(s1, dcheck_is_on) IN
  NotifyFinalHeadersReceived([s2 EXCEPT !.req.phase = "waiting"])

CancelAuth(s, dcheck_is_on) ==
  LET s1 == IF s.job.proxy_auth_state_ = AUTH_STATE_NEED_AUTH
              THEN [s EXCEPT !.job.proxy_auth_state_ = AUTH_STATE_CANCELED]
              ELSE [s EXCEPT !.job.server_auth_state_ = AUTH_STATE_CANCELED]
      s2 == CheckNotNeedsAuth(s1, dcheck_is_on) IN
  PostTask([s2 EXCEPT !.req.phase = "waiting"], "NotifyFinalHeadersReceived", 0)

(* The tail shared by ContinueWithCertificate and ContinueDespiteLastError: *)
(* the existing transaction is restarted in place.                          *)
(* The restart in place that keeps receive_headers_end_.                   *)
RestartInPlace_KeepsHeadersEnd(s, kind, in) ==
  LET s1 == NewAttempt(s, kind)
      s2 == ResetTimer(s1)
      rv == in.start
      s3 == [s2 EXCEPT
               !.txn.cb = IF rv = ERR_IO_PENDING THEN "start" ELSE "none",
               !.txn.response = NoResponse,
               !.txn.request_cookie = s2.job.extra_cookie,
               !.obs.start_path = "direct",
               !.obs.issued = TRUE,
               !.req.phase = "waiting"]
      s4 == IF rv = ERR_IO_PENDING
              THEN s3
              ELSE PostTask(MarkSync(s3, "txn_start"), "OnStartCompleted", rv) IN
  [s4 EXCEPT !.obs.cleared =
               /\ ~s4.job.response_info_
               /\ s4.job.override_response_headers_ = NoHeaders
               /\ ~s4.job.receive_headers_end_]

(* The restart in place without ResetTimer().                              *)
RestartInPlace_KeepsTimer(s, kind, in) ==
  LET s1 == NewAttempt(s, kind)
      s2 == [s1 EXCEPT !.job.receive_headers_end_ = FALSE]
      rv == in.start
      s3 == [s2 EXCEPT
               !.txn.cb = IF rv = ERR_IO_PENDING THEN "start" ELSE "none",
               !.txn.response = NoResponse,
               !.txn.request_cookie = s2.job.extra_cookie,
               !.obs.start_path = "direct",
               !.obs.issued = TRUE,
               !.req.phase = "waiting"]
      s4 == IF rv = ERR_IO_PENDING
              THEN s3
              ELSE PostTask(MarkSync(s3, "txn_start"), "OnStartCompleted", rv) IN
  [s4 EXCEPT !.obs.cleared =
               /\ ~s4.job.response_info_
               /\ s4.job.override_response_headers_ = NoHeaders
               /\ ~s4.job.receive_headers_end_]

RestartInPlace(s, kind, in) ==
  LET s1 == NewAttempt(s, kind)
      s2 == ResetTimer([s1 EXCEPT !.job.receive_headers_end_ = FALSE])
      rv == in.start
      s3 == [s2 EXCEPT
               !.txn.cb = IF rv = ERR_IO_PENDING THEN "start" ELSE "none",
               !.txn.response = NoResponse,
               !.txn.request_cookie = s2.job.extra_cookie,
               !.obs.start_path = "direct",
               !.obs.issued = TRUE,
               !.req.phase = "waiting"]
      s4 == IF rv = ERR_IO_PENDING
              THEN s3
              ELSE PostTask(MarkSync(s3, "txn_start"), "OnStartCompleted", rv) IN
  [s4 EXCEPT !.obs.cleared =
               /\ ~s4.job.response_info_
               /\ s4.job.override_response_headers_ = NoHeaders
               /\ ~s4.job.receive_headers_end_]

ContinueWithCertificate(s, in) == RestartInPlace(s, "ContinueWithCertificate", in)

ContinueDespiteLastError(s, in) ==
  IF ~s.job.transaction_
    THEN s
    ELSE RestartInPlace(s, "ContinueDespiteLastError", in)


(* ---------------------------------------------------------------------- *)
(* The read loop                                                           *)
(* ---------------------------------------------------------------------- *)
(* The fix applied whatever the number of bytes read.                      *)
ShouldFixMismatchedContentLength_AnyLength(s, rv) ==
  /\ rv = ERR_CONTENT_LENGTH_MISMATCH \/ rv = ERR_INCOMPLETE_CHUNKED_ENCODING
  /\ s.req.response_headers # NoHeaders

(* The fix applied to every read error.                                    *)
ShouldFixMismatchedContentLength_AnyError(s, rv) ==
  /\ rv < 0 /\ rv # ERR_IO_PENDING
  /\ s.req.response_headers # NoHeaders
  /\ s.req.postfilter_bytes_read = s.req.response_headers.clen

ShouldFixMismatchedContentLength(s, rv) ==
  /\ rv = ERR_CONTENT_LENGTH_MISMATCH \/ rv = ERR_INCOMPLETE_CHUNKED_ENCODING
  /\ s.req.response_headers # NoHeaders
  /\ s.req.postfilter_bytes_read = s.req.response_headers.clen

(* URLRequestJob's side of a finished read: the result reaches the         *)
(* consumer and decoded bytes are counted.                                 *)
ReadRawDataComplete(s, mode, rv, result, decoded) ==
  [s EXCEPT !.obs.read = [mode |-> mode, rv |-> rv, result |-> result,
                          post |-> s.req.postfilter_bytes_read,
                          clen |-> s.req.response_headers.clen],
            !.req.postfilter_bytes_read = IF result > 0 THEN @ + decoded ELSE @,
            !.req.phase = IF result <= 0 THEN "done" ELSE "reading"]

(* rv is what HttpTransaction::Read returns.                               *)
ReadRawData(s, rv, decoded) ==
  LET fixed == IF ShouldFixMismatchedContentLength(s, rv) THEN OK ELSE rv
      s0 == [s EXCEPT !.obs.read_reentered = @ \/ s.job.read_in_progress_]
      s1 == IF fixed = 0 \/ (fixed < 0 /\ fixed # ERR_IO_PENDING)
              THEN DoneWithRequest(s0, "FINISHED")
              ELSE s0 IN
  IF fixed = ERR_IO_PENDING
    THEN [s1 EXCEPT !.job.read_in_progress_ = TRUE, !.txn.cb = "read",
                    !.req.phase = "read_pending"]
    ELSE ReadRawDataComplete(s1, "sync", rv, fixed, decoded)

(* The completion that finalizes the request at the end of the body only. *)
OnReadCompleted_OnlyAtEnd(s, result, decoded) ==
  LET s1 == [s EXCEPT !.job.read_in_progress_ = FALSE]
      fixed == IF ShouldFixMismatchedContentLength(s1, result)
                 THEN OK ELSE result
      s2 == IF fixed = 0 THEN DoneWithRequest(s1, "FINISHED") ELSE s1 IN
  ReadRawDataComplete(s2, "async", result, fixed, decoded)

OnReadCompleted(s, result, decoded) ==
  LET s1 == [s EXCEPT !.job.read_in_progress_ = FALSE]
      fixed == IF ShouldFixMismatchedContentLength(s1, result)
                 THEN OK ELSE result
      s2 == IF fixed <= 0 THEN DoneWithRequest(s1, "FINISHED") ELSE s1 IN
  ReadRawDataComplete(s2, "async", result, fixed, decoded)

ReadErrors ==
  {ERR_FAILED, ERR_CONTENT_LENGTH_MISMATCH, ERR_INCOMPLETE_CHUNKED_ENCODING}


(* ---------------------------------------------------------------------- *)
(* Initial state: the job as its constructor leaves it, for any request    *)
(* ---------------------------------------------------------------------- *)
(* The request's attributes that the job reads.  load flag                 *)
(* LOAD_DO_NOT_SAVE_COOKIES and allow_credentials() are meaningful only    *)
(* when the context has a cookie store.                                    *)
Requests ==
  {r \in [network_delegate : BOOLEAN, cookie_store : BOOLEAN,
          allow_credentials : BOOLEAN, do_not_save_cookies : BOOLEAN,
          privacy_mode : BOOLEAN, ws_without_helper : BOOLEAN] :
     /\ ~r.cookie_store => (r.allow_credentials /\ ~r.do_not_save_cookies)
     /\ ~(r.cookie_store /\ r.allow_credentials) => ~r.privacy_mode}

InitJob(cookie) ==
  [transaction_ |-> FALSE,
   response_info_ |-> FALSE,
   override_response_headers_ |-> NoHeaders,
   receive_headers_end_ |-> FALSE,
   num_cookie_lines_left_ |-> 0,
   set_cookie_access_result_list_ |-> <<>>,
   proxy_auth_state_ |-> AUTH_STATE_DONT_NEED_AUTH,
   server_auth_state_ |-> AUTH_STATE_DONT_NEED_AUTH,
   read_in_progress_ |-> FALSE,
   done_ |-> FALSE,
   awaiting_callback_ |-> FALSE,
   total_received_bytes_from_previous_transactions_ |-> 0,
   total_sent_bytes_from_previous_transactions_ |-> 0,
   request_creation_time_ |-> TRUE,
   auth_credentials_ |-> NoCredentials,
   extra_cookie |-> cookie,
   extra_headers |-> NoExtraHeaders]

InitReq(r) ==
  [network_delegate |-> r.network_delegate,
   cookie_store |-> r.cookie_store,
   allow_credentials |-> r.allow_credentials,
   do_not_save_cookies |-> r.do_not_save_cookies,
   privacy_mode |-> r.privacy_mode,
   ws_without_helper |-> r.ws_without_helper,
   phase |-> "created",
   killed |-> FALSE,
   error |-> OK,
   fatal |-> FALSE,
   completions |-> <<>>,
   network_quality_estimator |-> TRUE,
   maybe_stored_cookies |-> <<>>,
   response_headers |-> NoHeaders,
   postfilter_bytes_read |-> 0,
   host_is_ip |-> FALSE,
   transport_security_state |-> TRUE,
   accepted_stream_types |-> AllTypesAccepted,
   failing_stream_types |-> {},
   source_stream |-> NullStream,
   job_factory |-> NoJobFactory,
   maybe_sent_cookies |-> <<>>,
   extra_request_headers |-> NoExtraHeaders,
   url |-> PlainURL,
   http_user_agent_settings |-> DefaultUserAgentSettings]

NoRead == [mode |-> "none", rv |-> 0, result |-> 0, post |-> 0, clen |-> 0]

InitObs ==
  [origin |-> "idle", syncs |-> {}, notes |-> NoNotes, in_stack |-> {},
   reentrant |-> FALSE, notreached |-> FALSE, check_failed |-> FALSE,
   attempt |-> 0, kind |-> "none", restart_origin |-> "idle",
   ready_at_restart |-> FALSE, cookie_before |-> NoCookie,
   jar_read |-> "none",
   start_path |-> "none", issued |-> FALSE, failure |-> FALSE,
   cleared |-> TRUE, sent_credentials |-> NoCredentials,
   nhc_early |-> FALSE, nhc_twice |-> FALSE,
   save |-> NoSave, read |-> NoRead,
   kills |-> 0, started_on_done |-> 0, dtor_check_failed |-> FALSE,
   read_reentered |-> FALSE, save_check_failed |-> FALSE,
   na |-> NoNeedsAuth, cancel_dcheck_failed |-> FALSE,
   hsts_received |-> {}, expect_ct_received |-> {},
   set_up |-> [done |-> FALSE, content_encoding |-> <<>>],
   cookie_read |-> NoCookieRead, post_hook |-> "none",
   pre_hook |-> NoPreHook, throttled |-> FALSE, cert |-> NoCertificateError,
   pub |-> NoPublication,
   completion |-> [notified |-> 0, recorded |-> 0],
   timer |-> [resets |-> 1, records |-> 0],
   info |-> NoResponseInfo,
   safe_redirect |->
     [asked |-> FALSE, location |-> [is_valid |-> FALSE, scheme |-> "http"],
      ret |-> FALSE]]

Init ==
  /\ \E cookie \in {NoCookie} : job = InitJob(cookie)
  /\ txn = NoTransaction
  /\ sched = [callbacks |-> {}, tasks |-> <<>>]
  /\ \E r \in Requests : req = InitReq(r)
  /\ obs = InitObs

(* ---------------------------------------------------------------------- *)
(* Inputs of the actions                                                   *)
(* ---------------------------------------------------------------------- *)
LineKinds == {"unparsable", "reject", "sync", "pending"}

DefaultHeaderInput ==
  [hook |-> OK, ovr |-> NoHeaders, kinds |-> [i \in 1..MaxLines |-> "reject"],
   fatal |-> FALSE]

(* Inputs that the handler cannot read are fixed, so that each behaviour   *)
(* of the code is generated once.                                          *)
StartInputsFor(s) ==
  {in \in StartInputs :
     /\ ~(s.req.cookie_store /\ s.req.allow_credentials)
          => in.jar_read = "pending"
     /\ ~s.req.network_delegate => in.pre_hook = ERR_IO_PENDING
     /\ s.job.transaction_ => ~in.throttle}

(* A transaction offers an auth restart only while restarts remain.        *)
ResponsesFor(s, responses) ==
  {r \in responses : r.ready => s.obs.attempt <= MaxRestarts}

ErrorResponses ==
  {NoResponse, [present |-> TRUE, headers |-> NoHeaders, ready |-> FALSE,
                      ssl_info |-> NoSSLInfo]}


(* Lines the write-after-receive loop will enumerate for this input.       *)
LinesFor(s, resp, h) ==
  IF s.req.do_not_save_cookies \/ ~s.req.cookie_store THEN 0
  ELSE IF h.ovr # NoHeaders THEN h.ovr.lines
  ELSE resp.headers.lines

HeaderInputsWith(s, result, resp, approved, overrides) ==
  LET asked == result = OK /\ s.req.network_delegate
      hooks == IF asked /\ ~approved
                 THEN {ERR_IO_PENDING, OK, ERR_BLOCKED_BY_CLIENT}
                 ELSE {OK}
      fatals == IF IsCertificateError(result) THEN BOOLEAN ELSE {FALSE}
      ovrs(hook) == IF asked /\ hook = OK
                      THEN {NoHeaders} \cup overrides
                      ELSE {NoHeaders}
      n(hook, ovr) == IF result # OK \/ hook # OK
                        THEN 0
                        ELSE LinesFor(s, resp, [ovr |-> ovr])
      unparsable(ovr) == IF ovr # NoHeaders THEN ovr.unparsable
                         ELSE resp.headers.unparsable
      kinds(hook, ovr) ==
        {k \in [1..n(hook, ovr) -> LineKinds] :
           \A i \in 1..n(hook, ovr) :
             k[i] = "unparsable" <=> i \in unparsable(ovr)} IN
  UNION {UNION {{[hook |-> hook, ovr |-> ovr, fatal |-> f,
                  kinds |-> [i \in 1..MaxLines |->
                               IF i <= n(hook, ovr) THEN k[i] ELSE "reject"]] :
                   k \in kinds(hook, ovr), f \in fatals} :
                ovr \in ovrs(hook)} :
           hook \in hooks}

HeaderInputsFor(s, result, resp, approved) ==
  HeaderInputsWith(s, result, resp, approved, OverrideHeaders)

(* No Set-Cookie line of this input is left to the jar's later answer.     *)
NonePending(h) == \A i \in 1..MaxLines : h.kinds[i] # "pending"

RestartInputsFor(s, ready) ==
  IF ready THEN StartInputsFor(s) ELSE {DefaultStartInput}

(* ---------------------------------------------------------------------- *)
(* Actions                                                                 *)
(* ---------------------------------------------------------------------- *)
Remove(s, c) == [s EXCEPT !.sched.callbacks = @ \ {c}]

Pop(s) == [s EXCEPT !.sched.tasks = Tail(@)]

HeadTask(kind, valid) ==
  /\ sched.tasks # <<>>
  /\ Head(sched.tasks).kind = kind
  /\ Head(sched.tasks).valid = valid

Alive == req.phase \notin {"created", "destroyed"}

(* URLRequest starts the job.                                              *)
DoStart ==
  /\ req.phase = "created"
  /\ \E in \in StartInputsFor(S) :
       Apply(Leave(Start([Enter(S, "consumer") EXCEPT !.req.phase = "waiting"],
                         in)))

(* URLRequest cancels the job.                                             *)
DoKill ==
  /\ Alive
  /\ ~req.killed
  /\ Apply([Leave(Kill(Enter(S, "consumer"))) EXCEPT !.obs.kills = @ + 1])

(* URLRequest cancels a job it has cancelled before.                       *)
DoKillAgain ==
  /\ Alive
  /\ req.killed
  /\ obs.kills < MaxKills
  /\ Apply([Leave(Kill(Enter(S, "consumer"))) EXCEPT !.obs.kills = @ + 1])

(* URLRequest goes away and the job with it.                               *)
DoDestroy ==
  /\ req.phase # "destroyed"
  /\ Apply([Leave(Destructor(NotifyURLRequestDestroyed(Enter(S, "consumer"))))
              EXCEPT !.req.phase = "destroyed"])

(* The cookie jar answers GetCookieListWithOptionsAsync.                   *)
CookieListCallback(cookie_lists) ==
  \E c \in sched.callbacks :
    /\ c.kind = "SetCookieHeaderAndStart"
    /\ c.valid
    /\ \E lists \in cookie_lists, in \in StartInputsFor(S) :
         /\ in.jar_read = "pending"
         /\ Apply(Leave(SetCookieHeaderAndStart(
                          Remove(Enter(S, "callback"), c), lists, in)))

(* The NetworkDelegate answers NotifyBeforeStartTransaction.               *)
BeforeStartTransactionCallback ==
  \E c \in sched.callbacks :
    /\ c.kind = "NotifyBeforeStartTransactionCallback"
    /\ c.valid
    /\ \E result \in {OK, ERR_BLOCKED_BY_CLIENT}, in \in StartInputsFor(S) :
         /\ in.jar_read = "pending"
         /\ in.pre_hook = ERR_IO_PENDING
         /\ result # OK => in = DefaultStartInput
         /\ Apply(Leave(MaybeStartTransactionInternal(
                          Remove(Enter(S, "callback"), c), result, in)))

(* The transaction finished (re)starting with result; resp is the response *)
(* info it then reports.                                                   *)
CompleteStartWith(s, result, responses, overrides) ==
  \E resp \in (IF result = OK THEN ResponsesFor(s, responses)
               ELSE IF result = ERR_FAILED THEN ErrorResponses
               ELSE {[present |-> TRUE, headers |-> NoHeaders, ready |-> FALSE,
                      ssl_info |-> NoSSLInfo]}) :
    \E h \in HeaderInputsWith(s, result, resp, FALSE, overrides) :
      \E in \in RestartInputsFor(s, resp.ready /\ h.hook = OK
                                       /\ NonePending(h)) :
        Apply(Leave(OnStartCompleted([s EXCEPT !.txn.response = resp],
                                     result, h, in)))

CompleteStart(s, result, responses) ==
  CompleteStartWith(s, result, responses, OverrideHeaders)

(* The transaction runs the completion callback of a pending start.        *)
TransactionStartCallback(responses) ==
  /\ job.transaction_
  /\ txn.cb = "start"
  /\ \E result \in {OK} \cup StartErrors :
       CompleteStart([Enter(S, "callback") EXCEPT !.txn.cb = "none"], result,
                     responses)

(* The message loop runs a posted OnStartCompleted(rv).                    *)
TaskOnStartCompleted(responses) ==
  /\ HeadTask("OnStartCompleted", TRUE)
  /\ CompleteStart(Pop(Enter(S, "task")), Head(sched.tasks).arg, responses)

(* The same two completions, with the headers the NetworkDelegate may put *)
(* into override_response_headers_ given.                                  *)
TransactionStartCallbackWith(responses, overrides) ==
  /\ job.transaction_
  /\ txn.cb = "start"
  /\ \E result \in {OK} \cup StartErrors :
       CompleteStartWith([Enter(S, "callback") EXCEPT !.txn.cb = "none"],
                         result, responses, overrides)

TaskOnStartCompletedWith(responses, overrides) ==
  /\ HeadTask("OnStartCompleted", TRUE)
  /\ CompleteStartWith(Pop(Enter(S, "task")), Head(sched.tasks).arg,
                       responses, overrides)

(* The message loop runs a posted NotifyStartError(result).                *)
TaskNotifyStartError ==
  /\ HeadTask("NotifyStartError", TRUE)
  /\ Apply(Leave(NotifyStartError(Pop(Enter(S, "task")),
                                  Head(sched.tasks).arg)))

(* The message loop runs the NotifyFinalHeadersReceived posted by          *)
(* CancelAuth.                                                             *)
TaskNotifyFinalHeadersReceived ==
  /\ HeadTask("NotifyFinalHeadersReceived", TRUE)
  /\ Apply(Leave(NotifyFinalHeadersReceived(Pop(Enter(S, "task")))))

(* The NetworkDelegate answers NotifyHeadersReceived.                      *)
HeadersReceivedCallbackWith(overrides) ==
  \E c \in sched.callbacks :
    /\ c.kind = "OnHeadersReceivedCallback"
    /\ c.valid
    /\ \E result \in {OK, ERR_BLOCKED_BY_CLIENT} :
         \E h \in HeaderInputsWith(S, result, txn.response, TRUE, overrides) :
           \E in \in RestartInputsFor(S, txn.response.ready /\ result = OK
                                            /\ NonePending(h)) :
             Apply(Leave(OnHeadersReceivedCallback(
                           Remove(Enter(S, "callback"), c), result, h, in)))

HeadersReceivedCallback ==
  \E c \in sched.callbacks :
    /\ c.kind = "OnHeadersReceivedCallback"
    /\ c.valid
    /\ \E result \in {OK, ERR_BLOCKED_BY_CLIENT} :
         \E h \in HeaderInputsFor(S, result, txn.response, TRUE) :
           \E in \in RestartInputsFor(S, txn.response.ready /\ result = OK
                                            /\ NonePending(h)) :
             Apply(Leave(OnHeadersReceivedCallback(
                           Remove(Enter(S, "callback"), c), result, h, in)))

(* The cookie jar answers SetCanonicalCookieAsync for one line.            *)
SetCookieCallback ==
  \E c \in sched.callbacks :
    /\ c.kind = "OnSetCookieResult"
    /\ c.valid
    /\ \E in \in RestartInputsFor(S, txn.response.ready
                                     /\ job.num_cookie_lines_left_ = 1) :
         Apply(Leave(OnSetCookieResult(
                       Remove(Enter(S, "callback"), c), c.arg, JarStatus,
                       in)))

(* A callback bound to an invalidated weak pointer is run: nothing of the  *)
(* job is called.                                                          *)
InvalidatedCallback ==
  \E c \in sched.callbacks :
    /\ ~c.valid
    /\ Apply(Remove(S, c))

(* A task bound to an invalidated weak pointer is run.                     *)
InvalidatedTask ==
  /\ sched.tasks # <<>>
  /\ ~Head(sched.tasks).valid
  /\ Apply(Pop(S))

DoSetAuth ==
  /\ req.phase = "auth_required"
  /\ obs.attempt <= MaxRestarts
  /\ \E in \in StartInputsFor(S) :
       Apply(Leave(SetAuth(Enter(S, "consumer"), "credentials", in)))

(* The consumer supplies credentials while the throttling entry, which     *)
(* NotifyHeadersComplete updated with the response, may reject requests.   *)
DoSetAuthThrottled ==
  /\ req.phase = "auth_required"
  /\ obs.attempt <= MaxRestarts
  /\ \E i \in StartInputsFor(S), throttle \in BOOLEAN :
       Apply(Leave(SetAuth(Enter(S, "consumer"), "credentials",
                           [i EXCEPT !.throttle = throttle])))

DoCancelAuth ==
  /\ req.phase = "auth_required"
  /\ \E dcheck_is_on \in BOOLEAN :
       Apply(Leave(CancelAuth(Enter(S, "consumer"), dcheck_is_on)))

DoContinueWithCertificate ==
  /\ req.phase = "cert_requested"
  /\ obs.attempt <= MaxRestarts
  /\ \E in \in RestartInputsFor(S, FALSE) \cup
                 {[DefaultStartInput EXCEPT !.start = r] :
                    r \in {OK} \cup StartErrors} :
       Apply(Leave(ContinueWithCertificate(Enter(S, "consumer"), in)))

(* Also callable after the job was cancelled while the consumer decided.   *)
DoContinueDespiteLastError ==
  /\ \/ req.phase = "cert_error"
     \/ req.phase = "killed" /\ obs.notes.cert_error > 0
  /\ obs.attempt <= MaxRestarts
  /\ \E in \in RestartInputsFor(S, FALSE) \cup
                 {[DefaultStartInput EXCEPT !.start = r] :
                    r \in {OK} \cup StartErrors} :
       /\ ~job.transaction_ => in = DefaultStartInput
       /\ Apply(Leave(ContinueDespiteLastError(Enter(S, "consumer"), in)))

(* ContinueDespiteLastError() called after the body was read to its end:   *)
(* the method tests nothing but transaction_.                              *)
LateContinueDespiteLastError ==
  /\ req.phase = "done"
  /\ job.done_
  /\ job.transaction_
  /\ obs.attempt <= MaxRestarts
  /\ \E in \in {[DefaultStartInput EXCEPT !.start = r] :
                  r \in {ERR_IO_PENDING, OK}} :
       Apply(Leave(ContinueDespiteLastError(Enter(S, "consumer"), in)))

(* URLRequestJob tells the job that the body was read to its end.          *)
DoDoneReading ==
  /\ req.phase \in {"reading", "done"}
  /\ job.transaction_
  /\ Apply([Leave(DoneReading(Enter(S, "consumer"))) EXCEPT
              !.req.phase = "done"])

(* URLRequest follows the redirect the job reported.                       *)
DoDoneReadingRedirectResponse ==
  /\ req.phase = "redirect_received"
  /\ Apply([Leave(DoneReadingRedirectResponse(Enter(S, "consumer"))) EXCEPT
              !.req.phase = "redirected"])

(* URLRequest asks for the response info.                                  *)
DoGetResponseInfo ==
  /\ Alive
  /\ job.transaction_
  /\ ~obs.info.filled
  /\ Apply([Leave(Enter(S, "consumer")) EXCEPT
              !.obs.info = GetResponseInfo(S)])

(* URLRequest reads from the job (URLRequestJob::Read -> ReadRawData).     *)
DoReadRawData ==
  /\ req.phase = "reading"
  /\ ~job.done_
  /\ \E rv \in {ERR_IO_PENDING, OK, 1} \cup ReadErrors, decoded \in 1..MaxBody :
       /\ rv <= 0 => decoded = 1
       /\ rv > 0 => req.postfilter_bytes_read + decoded <= MaxBody
       /\ Apply(Leave(ReadRawData(Enter(S, "consumer"), rv, decoded)))

(* The transaction runs the completion callback of a pending read.         *)
ReadCallback ==
  /\ job.transaction_
  /\ txn.cb = "read"
  /\ \E result \in {OK, 1} \cup ReadErrors, decoded \in 1..MaxBody :
       /\ result <= 0 => decoded = 1
       /\ result > 0 => req.postfilter_bytes_read + decoded <= MaxBody
       /\ Apply(Leave(OnReadCompleted(
                        [Enter(S, "callback") EXCEPT !.txn.cb = "none"],
                        result, decoded)))

(* The transaction moves bytes while an operation is in progress.          *)
TransactionProgress ==
  /\ job.transaction_
  /\ txn.cb # "none"
  /\ GetTotalReceivedBytes(S) + GetTotalSentBytes(S) < MaxBytes
  /\ \/ Apply([S EXCEPT !.txn.received = @ + 1])
     \/ Apply([S EXCEPT !.txn.sent = @ + 1])

(* The request lifecycle: every request configuration, cookies, hooks,    *)
(* auth and certificate restarts, cancellation.                            *)
Next ==
  \/ DoStart
  \/ DoKill
  \/ CookieListCallback({NoCookieLists, OneCookieLists})
  \/ BeforeStartTransactionCallback
  \/ TransactionStartCallback(LifecycleResponses)
  \/ TaskOnStartCompleted(LifecycleResponses)
  \/ TaskNotifyStartError
  \/ TaskNotifyFinalHeadersReceived
  \/ HeadersReceivedCallback
  \/ SetCookieCallback
  \/ InvalidatedCallback
  \/ InvalidatedTask
  \/ DoSetAuth
  \/ DoCancelAuth
  \/ DoContinueWithCertificate
  \/ DoContinueDespiteLastError

Spec == Init /\ [][Next]_vars

(* Data transfer: a request without cookie store and network delegate;     *)
(* byte counters move, the body is read, the job is restarted and killed.  *)
TransferRequests ==
  {r \in Requests :
     ~r.network_delegate /\ ~r.cookie_store /\ ~r.ws_without_helper}

InitTransfer ==
  /\ job = InitJob(NoCookie)
  /\ txn = NoTransaction
  /\ sched = [callbacks |-> {}, tasks |-> <<>>]
  /\ \E r \in TransferRequests : req = InitReq(r)
  /\ obs = InitObs

NextTransfer ==
  \/ DoStart
  \/ DoKill
  \/ TransactionStartCallback(TransferResponses)
  \/ TaskOnStartCompleted(TransferResponses)
  \/ TaskNotifyFinalHeadersReceived
  \/ InvalidatedTask
  \/ DoSetAuth
  \/ DoCancelAuth
  \/ DoContinueWithCertificate
  \/ DoContinueDespiteLastError
  \/ DoReadRawData
  \/ ReadCallback
  \/ TransactionProgress

SpecTransfer == InitTransfer /\ [][NextTransfer]_vars

(* Teardown: the same request; the body is read to its end, the job is     *)
(* cancelled, cancelled again and destroyed at any moment.                 *)
TeardownResponses == Responses({0}, {0 - 1})

NextTeardown ==
  \/ DoStart
  \/ DoKill
  \/ DoKillAgain
  \/ DoDestroy
  \/ TransactionStartCallback(TeardownResponses)
  \/ TaskOnStartCompleted(TeardownResponses)
  \/ TaskNotifyFinalHeadersReceived
  \/ InvalidatedTask
  \/ DoCancelAuth
  \/ DoReadRawData
  \/ ReadCallback
  \/ DoDoneReading
  \/ LateContinueDespiteLastError
  \/ TransactionProgress

SpecTeardown == InitTransfer /\ [][NextTeardown]_vars

(* Security headers: responses over connections with and without valid    *)
(* TLS info, with every certificate status, with and without the two       *)
(* headers; the host is a name or an IP address; the context has a         *)
(* TransportSecurityState or none.                                         *)
SecurityResponses ==
  {[present |-> TRUE,
    headers |-> [code |-> code, lines |-> 0, clen |-> 0 - 1, sts |-> sts,
                 expect_ct |-> expect_ct, content_encoding |-> <<>>,
                 unparsable |-> {}, date |-> 0],
    ready |-> FALSE,
    ssl_info |-> [is_valid |-> is_valid, cert_status |-> cert_status]] :
     code \in {200, 401}, sts \in BOOLEAN, expect_ct \in BOOLEAN,
     is_valid \in BOOLEAN,
     cert_status \in SUBSET {CERT_STATUS_DATE_INVALID, CERT_STATUS_IS_EV}}

InitSecurity ==
  /\ job = InitJob(NoCookie)
  /\ txn = NoTransaction
  /\ sched = [callbacks |-> {}, tasks |-> <<>>]
  /\ \E r \in TransferRequests, host_is_ip \in BOOLEAN,
        transport_security_state \in BOOLEAN :
       req = [InitReq(r) EXCEPT
                !.host_is_ip = host_is_ip,
                !.transport_security_state = transport_security_state]
  /\ obs = InitObs

NextSecurity ==
  \/ DoStart
  \/ DoKill
  \/ TransactionStartCallback(SecurityResponses)
  \/ TaskOnStartCompleted(SecurityResponses)
  \/ InvalidatedTask
  \/ DoSetAuth
  \/ DoContinueDespiteLastError
  \/ TransactionProgress

SpecSecurity == InitSecurity /\ [][NextSecurity]_vars

(* Decoding: responses with up to MaxTokens Content-Encoding tokens of     *)
(* every type; the request accepts every type or a set of types; the       *)
(* stages of some types cannot be created.                                 *)
ContentEncodings ==
  UNION {[1..n -> SourceTypes] : n \in 0..MaxTokens}

DecodeResponses ==
  {[present |-> TRUE,
    headers |-> [code |-> 200, lines |-> 0, clen |-> 0 - 1, sts |-> FALSE,
                 expect_ct |-> FALSE, content_encoding |-> content_encoding,
                 unparsable |-> {}, date |-> 0],
    ready |-> FALSE,
    ssl_info |-> NoSSLInfo] : content_encoding \in ContentEncodings}

InitDecode ==
  /\ job = InitJob(NoCookie)
  /\ txn = NoTransaction
  /\ sched = [callbacks |-> {}, tasks |-> <<>>]
  /\ \E r \in TransferRequests,
        accepted \in {AllTypesAccepted} \cup
                       {AcceptedStreamTypes(types) :
                          types \in SUBSET DecodableTypes},
        failing \in SUBSET DecodableTypes :
       req = [InitReq(r) EXCEPT !.accepted_stream_types = accepted,
                                !.failing_stream_types = failing]
  /\ obs = InitObs

NextDecode ==
  \/ DoStart
  \/ DoKill
  \/ TransactionStartCallback(DecodeResponses)
  \/ TaskOnStartCompleted(DecodeResponses)
  \/ InvalidatedTask
  \/ TransactionProgress

SpecDecode == InitDecode /\ [][NextDecode]_vars

(* The cookie read: requests with and without a cookie store, credentials  *)
(* and privacy mode, for a plain URL and the URLs Start() sets a Cookie    *)
(* header for; the jar answers with every cookie list.                     *)
CookieReadRequests ==
  {r \in Requests : ~r.network_delegate /\ ~r.ws_without_helper
                      /\ ~r.do_not_save_cookies}

CookieReadURLs == {u \in URLs : u.host_contains \subseteq {"news.google.com"}}

InitCookieRead ==
  /\ job = InitJob(NoCookie)
  /\ txn = NoTransaction
  /\ sched = [callbacks |-> {}, tasks |-> <<>>]
  /\ \E r \in CookieReadRequests, url \in CookieReadURLs :
       req = [InitReq(r) EXCEPT !.url = url]
  /\ obs = InitObs

NextCookieRead ==
  \/ DoStart
  \/ CookieListCallback(CookieLists)
  \/ TransactionStartCallback(TeardownResponses)
  \/ TaskOnStartCompleted(TeardownResponses)
  \/ InvalidatedTask
  \/ DoSetAuth
  \/ DoKill

SpecCookieRead == InitCookieRead /\ [][NextCookieRead]_vars

(* Request headers: every URL and every HttpUserAgentSettings; the caller  *)
(* sets extra headers before the start.                                    *)
DoSetExtraRequestHeaders ==
  /\ req.phase = "created"
  /\ job.extra_headers = NoExtraHeaders
  /\ \E headers \in CallerHeaders \ {NoExtraHeaders} :
       Apply(SetExtraRequestHeaders(
               [S EXCEPT !.req.extra_request_headers = headers], headers))

InitUserAgent ==
  /\ job = InitJob(NoCookie)
  /\ txn = NoTransaction
  /\ sched = [callbacks |-> {}, tasks |-> <<>>]
  /\ \E r \in TransferRequests, url \in URLs, settings \in UserAgentSettings :
       req = [InitReq(r) EXCEPT !.url = url,
                                !.http_user_agent_settings = settings]
  /\ obs = InitObs

NextUserAgent ==
  \/ DoSetExtraRequestHeaders
  \/ DoStart
  \/ TransactionStartCallback(TeardownResponses)
  \/ TaskOnStartCompleted(TeardownResponses)
  \/ InvalidatedTask
  \/ DoKill

SpecUserAgent == InitUserAgent /\ [][NextUserAgent]_vars

(* Redirects: the job is asked about redirect targets of every scheme,     *)
(* valid or not, under every job factory.                                  *)
DoIsSafeRedirect ==
  /\ Alive
  /\ \E location \in Locations :
       Apply([S EXCEPT !.obs.safe_redirect =
                [asked |-> TRUE, location |-> location,
                 ret |-> IsSafeRedirect(S, location)]])

InitRedirect ==
  /\ job = InitJob(NoCookie)
  /\ txn = NoTransaction
  /\ sched = [callbacks |-> {}, tasks |-> <<>>]
  /\ \E r \in TransferRequests, job_factory \in JobFactories :
       req = [InitReq(r) EXCEPT !.job_factory = job_factory]
  /\ obs = InitObs

NextRedirect ==
  \/ DoStart
  \/ DoKill
  \/ TransactionStartCallback(TeardownResponses)
  \/ TaskOnStartCompleted(TeardownResponses)
  \/ InvalidatedTask
  \/ DoIsSafeRedirect

SpecRedirect == InitRedirect /\ [][NextRedirect]_vars

(* The cookie write: a request with a cookie store that saves cookies,     *)
(* with and without a NetworkDelegate; responses whose Set-Cookie lines    *)
(* parse or do not.                                                        *)
CookieWriteRequests ==
  {r \in Requests : r.cookie_store /\ ~r.do_not_save_cookies
                      /\ ~r.allow_credentials /\ ~r.ws_without_helper}

CookieWriteResponses ==
  UNION {{[present |-> TRUE,
           headers |-> [NoHeaders EXCEPT !.code = 200, !.lines = lines,
                                         !.unparsable = unparsable],
           ready |-> FALSE, ssl_info |-> NoSSLInfo] :
            unparsable \in SUBSET (1..lines)} : lines \in 0..MaxLines}

InitCookieWrite ==
  /\ job = InitJob(NoCookie)
  /\ txn = NoTransaction
  /\ sched = [callbacks |-> {}, tasks |-> <<>>]
  /\ \E r \in CookieWriteRequests : req = InitReq(r)
  /\ obs = InitObs

NextCookieWrite ==
  \/ DoStart
  \/ BeforeStartTransactionCallback
  \/ TransactionStartCallback(CookieWriteResponses)
  \/ TaskOnStartCompleted(CookieWriteResponses)
  \/ TaskNotifyStartError
  \/ HeadersReceivedCallback
  \/ SetCookieCallback
  \/ InvalidatedCallback
  \/ InvalidatedTask
  \/ DoKill

SpecCookieWrite == InitCookieWrite /\ [][NextCookieWrite]_vars

(* A jar write of the attempt is outstanding and its callback can run:     *)
(* this is ENABLED <<SetCookieCallback>>_vars.                             *)
JarAnswerOutstanding ==
  \E c \in sched.callbacks : c.kind = "OnSetCookieResult" /\ c.valid

(* The cookie write with a jar that answers: every SetCanonicalCookieAsync *)
(* whose callback is still bound to a valid weak pointer has its callback  *)
(* run at some time. This is WF_vars(SetCookieCallback) with the enabling  *)
(* condition of the action written out; nothing else is assumed to happen. *)
JarAnswersEveryWrite ==
  []<>(~JarAnswerOutstanding) \/ []<><<SetCookieCallback>>_vars

SpecCookieWriteAnswered == SpecCookieWrite /\ JarAnswersEveryWrite

(* Throttling and websocket targets: a request without cookie store and    *)
(* NetworkDelegate, with and without a websocket URL that lacks its        *)
(* handshake helper; the throttling entry answers either way at the start  *)
(* and at a restart with credentials.                                      *)
ThrottleRequests ==
  {r \in Requests : ~r.cookie_store /\ ~r.network_delegate}

InitThrottle ==
  /\ job = InitJob(NoCookie)
  /\ txn = NoTransaction
  /\ sched = [callbacks |-> {}, tasks |-> <<>>]
  /\ \E r \in ThrottleRequests : req = InitReq(r)
  /\ obs = InitObs

NextThrottle ==
  \/ DoStart
  \/ TransactionStartCallback(TeardownResponses)
  \/ TaskOnStartCompleted(TeardownResponses)
  \/ InvalidatedTask
  \/ DoSetAuthThrottled
  \/ DoKill

SpecThrottle == InitThrottle /\ [][NextThrottle]_vars

(* Override headers: a request with cookie store, NetworkDelegate and      *)
(* TransportSecurityState over valid TLS; the transaction reports one of   *)
(* three responses and the NetworkDelegate stores none or one of the same  *)
(* three sets of headers, which differ in the status code, the Set-Cookie  *)
(* lines, the Date, the security headers and the Content-Encoding.         *)
HeaderVariant(v) ==
  [code |-> <<200, 302, 401>>[v],
   lines |-> <<MaxLines, 0, 1>>[v],
   clen |-> 0 - 1,
   sts |-> v = 2,
   expect_ct |-> v = 3,
   content_encoding |-> <<(<<TYPE_GZIP>>), (<<>>), (<<TYPE_BROTLI>>)>>[v],
   unparsable |-> {},
   date |-> v]

HeaderVariants == {HeaderVariant(v) : v \in 1..3}

VariantResponses ==
  {[present |-> TRUE, headers |-> h, ready |-> FALSE,
    ssl_info |-> [is_valid |-> TRUE, cert_status |-> {}]] :
     h \in HeaderVariants}

OverrideRequests ==
  {r \in Requests : r.network_delegate /\ r.cookie_store
                      /\ ~r.allow_credentials /\ ~r.do_not_save_cookies
                      /\ ~r.ws_without_helper}

InitOverride ==
  /\ job = InitJob(NoCookie)
  /\ txn = NoTransaction
  /\ sched = [callbacks |-> {}, tasks |-> <<>>]
  /\ \E r \in OverrideRequests : req = InitReq(r)
  /\ obs = InitObs

NextOverride ==
  \/ DoStart
  \/ BeforeStartTransactionCallback
  \/ TransactionStartCallbackWith(VariantResponses, HeaderVariants)
  \/ TaskOnStartCompletedWith(VariantResponses, HeaderVariants)
  \/ TaskNotifyStartError
  \/ HeadersReceivedCallbackWith(HeaderVariants)
  \/ SetCookieCallback
  \/ InvalidatedCallback
  \/ InvalidatedTask
  \/ DoGetResponseInfo
  \/ DoDoneReadingRedirectResponse
  \/ DoKill

SpecOverride == InitOverride /\ [][NextOverride]_vars

(* Automatic auth restarts: requests with and without cookie store,        *)
(* credentials and LOAD_DO_NOT_SAVE_COOKIES; responses over clean or       *)
(* invalid TLS, with Set-Cookie lines that parse or do not, with and       *)
(* without Strict-Transport-Security and Expect-CT, for which the          *)
(* transaction is ready to restart for auth or is not.                     *)
AuthRestartRequests ==
  {r \in Requests : ~r.network_delegate /\ ~r.ws_without_helper
                      /\ ~r.privacy_mode}

AuthRestartResponses ==
  UNION {{[present |-> TRUE,
           headers |-> [NoHeaders EXCEPT !.code = 401, !.lines = lines,
                                         !.unparsable = unparsable,
                                         !.sts = security,
                                         !.expect_ct = security],
           ready |-> ready,
           ssl_info |-> [is_valid |-> is_valid, cert_status |-> {}]] :
            unparsable \in SUBSET (1..lines), security \in BOOLEAN,
            ready \in BOOLEAN, is_valid \in BOOLEAN} : lines \in 0..MaxLines}

InitAuthRestart ==
  /\ job = InitJob(NoCookie)
  /\ txn = NoTransaction
  /\ sched = [callbacks |-> {}, tasks |-> <<>>]
  /\ \E r \in AuthRestartRequests : req = InitReq(r)
  /\ obs = InitObs

NextAuthRestart ==
  \/ DoStart
  \/ CookieListCallback({NoCookieLists, OneCookieLists})
  \/ TransactionStartCallback(AuthRestartResponses)
  \/ TaskOnStartCompleted(AuthRestartResponses)
  \/ SetCookieCallback
  \/ InvalidatedCallback
  \/ InvalidatedTask
  \/ DoKill

SpecAuthRestart == InitAuthRestart /\ [][NextAuthRestart]_vars

(* The end of the request in contexts with and without a                   *)
(* NetworkQualityEstimator: the operations of the teardown specification.  *)
InitCompletion ==
  /\ job = InitJob(NoCookie)
  /\ txn = NoTransaction
  /\ sched = [callbacks |-> {}, tasks |-> <<>>]
  /\ \E r \in TransferRequests, estimator \in BOOLEAN :
       req = [InitReq(r) EXCEPT !.network_quality_estimator = estimator]
  /\ obs = InitObs

SpecCompletion == InitCompletion /\ [][NextTeardown]_vars

(* The wait for the NetworkDelegate's answer to NotifyHeadersReceived and  *)
(* the end of the job: a request with a NetworkDelegate and no cookie      *)
(* store; the URLRequest may call NotifyURLRequestDestroyed() and may      *)
(* release the job, in either order and at any time.                       *)
HookTeardownRequests ==
  {r \in Requests : r.network_delegate /\ ~r.cookie_store
                      /\ ~r.ws_without_helper}

DoNotifyURLRequestDestroyed ==
  /\ req.phase # "destroyed"
  /\ Apply(Leave(NotifyURLRequestDestroyed(Enter(S, "consumer"))))

DoDestructor ==
  /\ req.phase # "destroyed"
  /\ Apply([Leave(Destructor(Enter(S, "consumer")))
              EXCEPT !.req.phase = "destroyed"])

InitHookTeardown ==
  /\ job = InitJob(NoCookie)
  /\ txn = NoTransaction
  /\ sched = [callbacks |-> {}, tasks |-> <<>>]
  /\ \E r \in HookTeardownRequests : req = InitReq(r)
  /\ obs = InitObs

NextHookTeardown ==
  \/ DoStart
  \/ BeforeStartTransactionCallback
  \/ TransactionStartCallback(TeardownResponses)
  \/ TaskOnStartCompleted(TeardownResponses)
  \/ TaskNotifyStartError
  \/ HeadersReceivedCallback
  \/ InvalidatedCallback
  \/ InvalidatedTask
  \/ DoKill
  \/ DoKillAgain
  \/ DoNotifyURLRequestDestroyed
  \/ DoDestructor

SpecHookTeardown == InitHookTeardown /\ [][NextHookTeardown]_vars

(* ---------------------------------------------------------------------- *)
(* Properties                                                              *)
(* ---------------------------------------------------------------------- *)
SavingEnabled == req.cookie_store /\ ~req.do_not_save_cookies

AllLinesResolved == obs.save.resolved = 1..obs.save.N

(* C1 as stated: for a response with N Set-Cookie lines, once              *)
(* SaveCookiesAndNotifyHeadersComplete(OK) has begun, NotifyHeadersComplete *)
(* runs at most once, only after all N lines have resolved, and has run    *)
(* once all of them have.                                                  *)
C1_Original ==
  /\ ~obs.nhc_twice
  /\ ~obs.nhc_early
  /\ obs.save.nhc <= 1
  /\ obs.save.nhc = 1 => AllLinesResolved
  /\ (obs.save.began /\ AllLinesResolved) => obs.save.nhc = 1

(* C1 amended: when the request saves cookies (a cookie store exists and   *)
(* LOAD_DO_NOT_SAVE_COOKIES is clear), NotifyHeadersComplete runs at most  *)
(* once per response, never before all N lines have resolved, and has run  *)
(* exactly once as soon as all N have resolved, for every mix of rejected, *)
(* synchronous and late jar answers; when the request does not save        *)
(* cookies it runs exactly once, at once, and no line is resolved.         *)
C1_HeadersCompleteOnce ==
  /\ ~obs.nhc_twice
  /\ obs.save.nhc <= 1
  /\ SavingEnabled =>
       /\ ~obs.nhc_early
       /\ obs.save.nhc = 1 => AllLinesResolved
       /\ (obs.save.began /\ AllLinesResolved) => obs.save.nhc = 1
  /\ (obs.save.began /\ ~SavingEnabled) =>
       /\ obs.save.nhc = 1
       /\ obs.save.resolved = {}

(* Two lines were answered by the jar out of order and headers-complete    *)
(* ran once, after the second answer.                                      *)
C1_Witness ==
  /\ obs.save.N = 2
  /\ obs.save.nhc = 1
  /\ Len(req.maybe_stored_cookies) = 2
  /\ req.maybe_stored_cookies[1].line = 2
  /\ req.maybe_stored_cookies[2].line = 1
  /\ obs.notes.headers_complete = 1

(* C2: after Kill() no continuation that was outstanding changes the job,  *)
(* the transaction slot or what the consumer has been told; in particular  *)
(* a late cookie-jar answer signals no headers-complete.                   *)
C2_KilledContinuationsAreNoOps ==
  [][req.killed =>
       /\ job' = job
       /\ txn' = txn
       /\ obs'.notes = obs.notes
       /\ obs'.save = obs.save
       /\ req' = req]_vars

(* The job was killed while a jar write of a two-line response was         *)
(* outstanding, every continuation has since been run, and no              *)
(* headers-complete was signalled.                                         *)
C2_Witness ==
  /\ req.killed
  /\ sched.callbacks = {}
  /\ sched.tasks = <<>>
  /\ obs.save.began
  /\ obs.save.N = 2
  /\ obs.save.resolved = {2}
  /\ obs.save.nhc = 0
  /\ job.num_cookie_lines_left_ = 1

ConsumerRestarts ==
  {"SetAuth", "ContinueWithCertificate", "ContinueDespiteLastError"}

AuthRestarts == {"SetAuth", "auto"}

(* C4 as stated: every restart of the transaction is the consumer's        *)
(* SetAuth, ContinueWithCertificate or ContinueDespiteLastError.           *)
C4_Original ==
  obs.attempt > 1 =>
    obs.kind \in ConsumerRestarts /\ obs.restart_origin = "consumer"

(* C4 amended: a restart is either one of the three consumer operations,   *)
(* made in the consumer's stack, or the restart NotifyHeadersComplete      *)
(* makes by itself, outside a consumer stack, when the transaction reports *)
(* IsReadyToRestartForAuth(), and then with empty credentials.             *)
C4_RestartsOnlyOnRequestOrReady ==
  obs.attempt > 1 =>
    \/ obs.kind \in ConsumerRestarts /\ obs.restart_origin = "consumer"
    \/ /\ obs.kind = "auto"
       /\ obs.ready_at_restart
       /\ obs.restart_origin # "consumer"
       /\ obs.issued => obs.sent_credentials = NoCredentials

(* The transaction was restarted with empty credentials on its own report. *)
C4_Witness ==
  /\ obs.kind = "auto"
  /\ obs.issued
  /\ obs.sent_credentials = NoCredentials
  /\ txn.cb = "start"

C6_Original ==
  (obs.kind \in ConsumerRestarts \cup {"auto"} /\ obs.issued) =>
    obs.cleared /\ obs.start_path = "StartTransaction"

(* C6 amended: each restart leaves the response snapshot, the override     *)
(* headers and receive_headers_end_ cleared; a restart with auth goes      *)
(* through the cookie query and StartTransaction with its pre-transaction  *)
(* hook, while ContinueWithCertificate and ContinueDespiteLastError        *)
(* restart the existing transaction directly, without StartTransaction.    *)
C6_RestartsClearAndReenter ==
  obs.kind \in ConsumerRestarts \cup {"auto"} =>
    /\ obs.cleared
    /\ obs.issued =>
         obs.start_path =
           IF obs.kind \in AuthRestarts THEN "StartTransaction" ELSE "direct"

(* A client certificate restarted the transaction in place.                *)
C6_Witness ==
  /\ obs.kind = "ContinueWithCertificate"
  /\ obs.issued
  /\ obs.cleared
  /\ obs.start_path = "direct"
  /\ txn.cb = "start"

NoPendingStartError ==
  \A i \in DOMAIN sched.tasks : sched.tasks[i].kind # "NotifyStartError"

(* C9: in one attempt the consumer gets at most one start-error            *)
(* notification, an attempt with a start error has no headers-complete,    *)
(* certificate-error or certificate-request notification, and a terminal   *)
(* failure of a job that was not killed has produced exactly one start     *)
(* error once the deferred notification, if any, has run.                  *)
C9_OneStartErrorPerFailure ==
  /\ obs.notes.start_error <= 1
  /\ obs.notes.start_error = 1 =>
       /\ obs.failure
       /\ obs.notes.headers_complete = 0
       /\ obs.notes.final_headers = 0
       /\ obs.notes.cert_error = 0
       /\ obs.notes.cert_requested = 0
  /\ (obs.failure /\ ~req.killed /\ NoPendingStartError) =>
       obs.notes.start_error = 1

(* The post-headers hook rejected a response and the consumer got one      *)
(* start error.                                                            *)
C9_Witness ==
  /\ obs.notes.start_error = 1
  /\ req.error = ERR_BLOCKED_BY_CLIENT
  /\ job.receive_headers_end_
  /\ req.network_delegate
  /\ ~req.killed

ReadFinished == obs.read.mode \in {"sync", "async"}

(* C7: ERR_CONTENT_LENGTH_MISMATCH from the transaction reaches the        *)
(* consumer as OK exactly when the bytes read after filtering equal the    *)
(* declared Content-Length, and unchanged otherwise, on the synchronous    *)
(* return of ReadRawData as in OnReadCompleted.                            *)
C7_MismatchFixedOnExactLength ==
  (ReadFinished /\ obs.read.rv = ERR_CONTENT_LENGTH_MISMATCH) =>
    /\ obs.read.result = OK <=> obs.read.post = obs.read.clen
    /\ obs.read.result # OK => obs.read.result = obs.read.rv

(* A pending read ended with the mismatch after exactly the declared       *)
(* number of bytes and the consumer saw OK.                                *)
C7_Witness ==
  /\ obs.read.mode = "async"
  /\ obs.read.rv = ERR_CONTENT_LENGTH_MISMATCH
  /\ obs.read.result = OK
  /\ obs.read.post = MaxBody
  /\ obs.read.clen = MaxBody

(* C8 as stated: every read error other than ERR_CONTENT_LENGTH_MISMATCH   *)
(* reaches the consumer unchanged.                                         *)
C8_Original ==
  (ReadFinished /\ obs.read.rv < 0
     /\ obs.read.rv # ERR_CONTENT_LENGTH_MISMATCH) =>
    obs.read.result = obs.read.rv

(* C8 amended: every read error other than ERR_CONTENT_LENGTH_MISMATCH and *)
(* ERR_INCOMPLETE_CHUNKED_ENCODING reaches the consumer unchanged;         *)
(* ERR_INCOMPLETE_CHUNKED_ENCODING is turned into OK under the same        *)
(* exact-length condition as the mismatch.                                 *)
C8_OnlyLengthErrorsFixed ==
  /\ (ReadFinished /\ obs.read.rv < 0
        /\ obs.read.rv \notin {ERR_CONTENT_LENGTH_MISMATCH,
                               ERR_INCOMPLETE_CHUNKED_ENCODING}) =>
       obs.read.result = obs.read.rv
  /\ (ReadFinished /\ obs.read.rv = ERR_INCOMPLETE_CHUNKED_ENCODING) =>
       /\ obs.read.result = OK <=> obs.read.post = obs.read.clen
       /\ obs.read.result # OK => obs.read.result = obs.read.rv

(* Another error arrived after exactly the declared number of bytes and    *)
(* the consumer saw it unchanged.                                          *)
C8_Witness ==
  /\ ReadFinished
  /\ obs.read.rv = ERR_FAILED
  /\ obs.read.result = ERR_FAILED
  /\ obs.read.post = obs.read.clen

(* C10: GetTotalReceivedBytes() and GetTotalSentBytes() never decrease,    *)
(* across restarts of the transaction and across its destruction.          *)
C10_TotalsNeverDecrease ==
  [][/\ GetTotalReceivedBytes(S)' >= GetTotalReceivedBytes(S)
     /\ GetTotalSentBytes(S)' >= GetTotalSentBytes(S)]_vars

(* A transaction that had moved bytes both ways was destroyed and the      *)
(* totals still count them.                                                *)
C10_Witness ==
  /\ ~job.transaction_
  /\ job.total_received_bytes_from_previous_transactions_ = 1
  /\ job.total_sent_bytes_from_previous_transactions_ = 1
  /\ GetTotalReceivedBytes(S) = 1
  /\ GetTotalSentBytes(S) = 1

(* C11: the request is finalized at most once: a finalized job is never    *)
(* finalized again, by destruction or otherwise, and destroying a job that *)
(* is not yet finalized finalizes it once, with cause ABORTED.             *)
C11_FinalizedAtMostOnce ==
  [][/\ Len(req'.completions) <= 1
     /\ job.done_ => req'.completions = req.completions
     /\ (req'.phase = "destroyed" /\ ~job.done_) =>
          job'.done_ /\ req'.completions = <<"ABORTED">>
     /\ req'.phase = "destroyed" => Len(req'.completions) = 1]_vars

(* A job was destroyed while its transaction was reading the body.         *)
C11_Witness ==
  /\ req.phase = "destroyed"
  /\ job.transaction_
  /\ job.read_in_progress_
  /\ ~req.killed
  /\ req.completions = <<"ABORTED">>

(* C12: OnStartCompleted on a finalized job delivers no notification,      *)
(* binds no cookie or hook callback and changes nothing of the job but its *)
(* timer: response snapshot, override headers, auth states, cookie counter *)
(* and cookie list stay as they are.                                       *)
C12_StartCompletionDroppedWhenDone ==
  [][obs'.started_on_done # obs.started_on_done =>
       /\ obs'.notes = obs.notes
       /\ obs'.save = obs.save
       /\ sched'.callbacks = sched.callbacks
       /\ req'.phase = req.phase
       /\ req'.maybe_stored_cookies = req.maybe_stored_cookies
       /\ req'.response_headers = req.response_headers
       /\ job' = [job EXCEPT !.request_creation_time_ =
                               job'.request_creation_time_]]_vars

(* A transaction restarted after the body had been read completed, and the *)
(* finalized job ignored it.                                               *)
C12_Witness ==
  /\ obs.started_on_done = 1
  /\ job.done_
  /\ job.transaction_
  /\ txn.response.present
  /\ req.completions = <<"FINISHED">>

(* C13: a second Kill() changes nothing: job, transaction slot, pending    *)
(* continuations and both byte totals are as the first Kill() left them.   *)
C13_KillIdempotent ==
  [][(req.killed /\ obs'.kills = obs.kills + 1) =>
       /\ job' = job
       /\ txn' = txn
       /\ sched' = sched
       /\ req' = req
       /\ GetTotalReceivedBytes(S)' = GetTotalReceivedBytes(S)
       /\ GetTotalSentBytes(S)' = GetTotalSentBytes(S)]_vars

(* A job whose transaction had moved bytes was killed twice.               *)
C13_Witness ==
  /\ obs.kills = 2
  /\ req.killed
  /\ ~job.transaction_
  /\ GetTotalReceivedBytes(S) = 1
  /\ GetTotalSentBytes(S) = 1

Needed(state) == state = AUTH_STATE_NEED_AUTH

Canceled(state) == state = AUTH_STATE_CANCELED

(* C14: NeedsAuth() with status 407 answers true and sets the proxy state  *)
(* to Needed, unless that state is Canceled, when it answers false and     *)
(* changes nothing; with 401 the same for the origin state; with any other *)
(* status, or without a response, it answers false and changes nothing.    *)
C14_NeedsAuthByStatus ==
  obs.na.called =>
    LET na == obs.na
        unchanged == /\ na.proxy_after = na.proxy_before
                     /\ na.server_after = na.server_before IN
    IF na.code = 407
      THEN IF Canceled(na.proxy_before)
             THEN ~na.ret /\ unchanged
             ELSE /\ na.ret
                  /\ Needed(na.proxy_after)
                  /\ na.server_after = na.server_before
    ELSE IF na.code = 401
      THEN IF Canceled(na.server_before)
             THEN ~na.ret /\ unchanged
             ELSE /\ na.ret
                  /\ Needed(na.server_after)
                  /\ na.proxy_after = na.proxy_before
    ELSE ~na.ret /\ unchanged

(* A proxy that was given credentials challenged again.                    *)
C14_Witness ==
  /\ obs.na.called
  /\ obs.na.code = 407
  /\ obs.na.proxy_before = AUTH_STATE_HAVE_AUTH
  /\ obs.na.ret
  /\ Needed(job.proxy_auth_state_)
  /\ req.phase = "auth_required"

CancelAuthStep ==
  /\ req.phase = "auth_required"
  /\ req'.phase = "waiting"
  /\ obs'.attempt = obs.attempt

(* C15: CancelAuth() turns the proxy state from Needed into Canceled and   *)
(* leaves the origin state, or, when the proxy state is not Needed, does   *)
(* so for the origin state; NeedsAuth() then answers false for the status  *)
(* of the cancelled challenge; a Canceled state stays Canceled.            *)
C15_CancelAuthIsFinal ==
  /\ [](/\ (obs.na.called /\ obs.na.code = 407 /\ Canceled(obs.na.proxy_before))
             => ~obs.na.ret
        /\ (obs.na.called /\ obs.na.code = 401 /\ Canceled(obs.na.server_before))
             => ~obs.na.ret
        /\ ~obs.cancel_dcheck_failed)
  /\ [][/\ Canceled(job.proxy_auth_state_) => Canceled(job'.proxy_auth_state_)
        /\ Canceled(job.server_auth_state_) => Canceled(job'.server_auth_state_)
        /\ CancelAuthStep =>
             IF Needed(job.proxy_auth_state_)
               THEN /\ Canceled(job'.proxy_auth_state_)
                    /\ job'.server_auth_state_ = job.server_auth_state_
               ELSE /\ Needed(job.server_auth_state_)
                    /\ Canceled(job'.server_auth_state_)
                    /\ job'.proxy_auth_state_ = job.proxy_auth_state_]_vars

(* The proxy challenge was cancelled, NeedsAuth() was asked again for the  *)
(* 407 and answered false, and the consumer got the final headers.         *)
C15_Witness ==
  /\ Canceled(job.proxy_auth_state_)
  /\ job.server_auth_state_ = AUTH_STATE_DONT_NEED_AUTH
  /\ obs.na.called
  /\ obs.na.code = 407
  /\ Canceled(obs.na.proxy_before)
  /\ ~obs.na.ret
  /\ obs.notes.final_headers = 1

SetAuthStep == obs'.kind = "SetAuth" /\ obs'.attempt = obs.attempt + 1

(* C16: SetAuth(credentials) turns exactly one auth state from Needed into *)
(* Satisfied, the proxy state when it is Needed and else the origin state, *)
(* leaves the other one, and restarts with auth: the response state is     *)
(* cleared and the credentials are the ones the transaction is restarted   *)
(* with.                                                                   *)
C16_SetAuthSatisfiesOne ==
  [][SetAuthStep =>
       /\ IF Needed(job.proxy_auth_state_)
            THEN /\ job'.proxy_auth_state_ = AUTH_STATE_HAVE_AUTH
                 /\ job'.server_auth_state_ = job.server_auth_state_
            ELSE /\ Needed(job.server_auth_state_)
                 /\ job'.server_auth_state_ = AUTH_STATE_HAVE_AUTH
                 /\ job'.proxy_auth_state_ = job.proxy_auth_state_
       /\ obs'.cleared
       /\ IF obs'.issued
            THEN obs'.sent_credentials = "credentials"
            ELSE job'.auth_credentials_ = "credentials"]_vars

(* An origin challenge, with no proxy challenge open, was answered with    *)
(* credentials and the transaction restarted with them.                    *)
C16_Witness ==
  /\ obs.kind = "SetAuth"
  /\ obs.issued
  /\ obs.sent_credentials = "credentials"
  /\ job.proxy_auth_state_ = AUTH_STATE_DONT_NEED_AUTH
  /\ job.server_auth_state_ = AUTH_STATE_HAVE_AUTH

(* C17: the proxy and the origin auth state are never both Needed, and a   *)
(* state that is Needed is the one of the status, 407 or 401, that the     *)
(* last NeedsAuth() call saw.                                              *)
C17_OneChallengeAtATime ==
  /\ ~(Needed(job.proxy_auth_state_) /\ Needed(job.server_auth_state_))
  /\ Needed(job.proxy_auth_state_) => (obs.na.called /\ obs.na.code = 407)
  /\ Needed(job.server_auth_state_) => (obs.na.called /\ obs.na.code = 401)

(* The origin challenged after the proxy challenge had been satisfied.     *)
C17_Witness ==
  /\ Needed(job.server_auth_state_)
  /\ job.proxy_auth_state_ = AUTH_STATE_HAVE_AUTH
  /\ obs.na.code = 401
  /\ req.phase = "auth_required"

(* C18: the TransportSecurityState is handed an HSTS header only from a    *)
(* response whose TLS info is valid and whose certificate status has no    *)
(* error bit, for a host that is not an IP address; it is handed an        *)
(* Expect-CT header only from a response whose TLS info is valid and whose *)
(* certificate status has no error bit.                                    *)
C18_SecurityHeadersNeedCleanTLS ==
  /\ \A e \in obs.hsts_received :
       e.is_valid /\ ~IsCertStatusError(e.cert_status) /\ ~e.host_is_ip
  /\ \A e \in obs.expect_ct_received :
       e.is_valid /\ ~IsCertStatusError(e.cert_status)

(* Both headers were handed over, the HSTS one from a response whose       *)
(* certificate status has a bit that is no error.                          *)
C18_Witness ==
  /\ \E e \in obs.hsts_received : e.cert_status = {CERT_STATUS_IS_EV}
  /\ \E e \in obs.expect_ct_received : e.is_valid

SetUpTokens == obs.set_up.content_encoding

Enabled(source_type) ==
  \/ ~req.accepted_stream_types.has_value
  \/ source_type \in req.accepted_stream_types.types

AllTokensDecodable ==
  \A i \in 1..Len(SetUpTokens) :
    SetUpTokens[i] \in DecodableTypes /\ Enabled(SetUpTokens[i])

(* C19: when every Content-Encoding token is gzip, deflate or br and is    *)
(* enabled for the request, SetUpSourceStream returns no stream exactly    *)
(* when a stage cannot be created, and otherwise a stream of the raw body  *)
(* and one stage per token in reverse header order: the stage of the last  *)
(* token reads the raw body, the stage of the first token is outermost.    *)
C19_StagesInReverseHeaderOrder ==
  (obs.set_up.done /\ AllTokensDecodable) =>
    LET n == Len(SetUpTokens)
        stream == req.source_stream IN
    IF \E i \in 1..n : SetUpTokens[i] \in req.failing_stream_types
      THEN stream = NullStream
      ELSE /\ Len(stream) = n + 1
           /\ stream[1] = "raw"
           /\ \A i \in 1..n : stream[1 + i] = SetUpTokens[n + 1 - i]

(* "gzip, br": br is decoded first, then gzip.                             *)
C19_Witness ==
  /\ obs.set_up.done
  /\ SetUpTokens = <<TYPE_GZIP, TYPE_BROTLI>>
  /\ req.accepted_stream_types = AcceptedStreamTypes({TYPE_GZIP, TYPE_BROTLI})
  /\ req.source_stream = <<"raw", TYPE_BROTLI, TYPE_GZIP>>
  /\ req.phase = "reading"

(* C20: when any Content-Encoding token, at any position, is unknown, is   *)
(* the identity encoding, or is gzip, deflate or br but not enabled for    *)
(* the request, SetUpSourceStream returns the raw stream with no stage.    *)
C20_PassThroughOnAnyOtherToken ==
  (obs.set_up.done /\ ~AllTokensDecodable) => req.source_stream = RawStream

(* "gzip, unknown" is passed through, also where no gzip stage could be    *)
(* created.                                                                *)
C20_Witness ==
  /\ obs.set_up.done
  /\ SetUpTokens = <<TYPE_GZIP, TYPE_UNKNOWN>>
  /\ TYPE_GZIP \in req.failing_stream_types
  /\ req.source_stream = RawStream
  /\ req.phase = "reading"

HttpScheme(location) == location.scheme \in {"http", "https"}

FactoryApproves(location) ==
  req.job_factory.exists /\ location.scheme \in req.job_factory.safe_targets

CookieNames(cookies) == [i \in DOMAIN cookies |-> cookies[i].name]

JarCookieHeader(cookie) == cookie[1] = "jar"

(* C22: in privacy mode the cookie-read handler publishes every cookie the *)
(* jar returned, included or excluded, as excluded for user preferences,   *)
(* and sets no Cookie header: the request of the transaction carries no    *)
(* Cookie header built from the jar.                                       *)
C22_PrivacyModeExcludesAll ==
  (obs.cookie_read.done /\ req.privacy_mode) =>
    LET lists == obs.cookie_read.lists IN
    /\ CookieNames(req.maybe_sent_cookies) =
         CookieNames(lists.excluded \o lists.included)
    /\ \A i \in DOMAIN req.maybe_sent_cookies :
         EXCLUDE_USER_PREFERENCES \in req.maybe_sent_cookies[i].reasons
    /\ ~JarCookieHeader(job.extra_cookie)
    /\ ~JarCookieHeader(txn.request_cookie)

(* In privacy mode the jar returned two cookies and excluded a third, and  *)
(* the transaction was started without a Cookie header.                    *)
C22_Witness ==
  /\ req.privacy_mode
  /\ obs.cookie_read.done
  /\ Len(obs.cookie_read.lists.included) = 2
  /\ Len(obs.cookie_read.lists.excluded) = 1
  /\ Len(req.maybe_sent_cookies) = 3
  /\ obs.issued
  /\ txn.request_cookie = NoCookie

IncludedAfterFilter ==
  IF obs.cookie_read.done /\ ~req.privacy_mode
    THEN SelectBlocked(obs.cookie_read.lists.included, FALSE)
    ELSE <<>>

ExcludedAfterFilter ==
  IF req.privacy_mode
    THEN obs.cookie_read.lists.excluded \o obs.cookie_read.lists.included
    ELSE obs.cookie_read.lists.excluded \o
           SelectBlocked(obs.cookie_read.lists.included, TRUE)

(* C23: the request handed to the transaction carries a Cookie header only *)
(* when the cookie read of the attempt produced an included set that is    *)
(* not empty after the user-blocking filter, privacy mode being off; the   *)
(* list published to the request is the excluded cookies followed by the   *)
(* included cookies.                                                       *)
C23_CookieHeaderOnlyFromIncludedSet ==
  /\ (obs.issued /\ job.transaction_) =>
       (txn.request_cookie # NoCookie <=> IncludedAfterFilter # <<>>)
  /\ obs.cookie_read.done =>
       CookieNames(req.maybe_sent_cookies) =
         CookieNames(ExcludedAfterFilter \o IncludedAfterFilter)

(* The access results recorded for the Set-Cookie lines of the attempt.    *)
RecordedResults ==
  job.set_cookie_access_result_list_ \o req.maybe_stored_cookies

ResultOf(i) == RecordedResults[i]

NotSubmitted(i) == ResultOf(i).line \notin obs.save.written

(* A jar write is issued only with the hook's approval, if there is a      *)
(* hook, and never for a response the hook rejected.                       *)
JarWriteNeedsApproval ==
  /\ obs.save.written # {} =>
       obs.post_hook = (IF req.network_delegate THEN "approved" ELSE "none")
  /\ obs.post_hook = "rejected" =>
       (obs.save.written = {} /\ RecordedResults = <<>>)

(* C24 as stated: a Set-Cookie line is handed to the jar only after the    *)
(* post-headers hook, if any, approved the response and only if it parsed  *)
(* and passed the admission check; a response the hook rejected gets no    *)
(* jar write; a line that fails parsing or admission is recorded with the  *)
(* blocked-by-preferences reason and without a jar call.                   *)
C24_Original ==
  /\ JarWriteNeedsApproval
  /\ obs.save.written \cap obs.save.unparsable = {}
  /\ \A i \in 1..Len(RecordedResults) :
       IF NotSubmitted(i)
         THEN ResultOf(i).status = {EXCLUDE_USER_PREFERENCES}
         ELSE IsInclude(ResultOf(i).status)

(* C24, corrected: as above, but only a line that the admission check      *)
(* refuses is recorded with the blocked-by-preferences reason; a line that *)
(* fails parsing is recorded with the exclusion status the parser gave it, *)
(* to which no blocked-by-preferences reason is added; neither is handed   *)
(* to the jar.                                                             *)
C24_JarWriteOnlyForAdmittedLines ==
  /\ JarWriteNeedsApproval
  /\ obs.save.written \cap obs.save.unparsable = {}
  /\ \A i \in 1..Len(RecordedResults) :
       IF NotSubmitted(i)
         THEN ResultOf(i).status =
                (IF ResultOf(i).line \in obs.save.unparsable
                   THEN {EXCLUDE_FAILURE_TO_STORE}
                   ELSE {EXCLUDE_USER_PREFERENCES})
         ELSE IsInclude(ResultOf(i).status)

(* The hook approved a response with two lines: the first does not parse   *)
(* and is recorded with the parser's status, the second went to the jar.   *)
C24_Witness ==
  /\ obs.post_hook = "approved"
  /\ obs.save.N = 2
  /\ obs.save.unparsable = {1}
  /\ obs.save.written = {2}
  /\ Len(RecordedResults) = 2
  /\ \E i \in 1..2 : ResultOf(i).line = 1
                      /\ ResultOf(i).status = {EXCLUDE_FAILURE_TO_STORE}

(* The attempt is the job's first, which creates the transaction.          *)
FirstAttempt == obs.kind = "start"

(* The error of a throttled start is no error a transaction reports.       *)
ThrottledIsNoTransportError ==
  ERR_TEMPORARILY_THROTTLED \notin StartErrors \cup {OK, ERR_IO_PENDING}

(* C26 as stated: in no attempt, first or made after an auth restart, is   *)
(* the transaction started or restarted when the URL is a websocket URL    *)
(* without handshake helper (the attempt fails with                        *)
(* ERR_DISALLOWED_URL_SCHEME) or when the throttling entry rejects (the    *)
(* attempt fails with ERR_TEMPORARILY_THROTTLED, which no transaction      *)
(* reports).                                                               *)
C26_Original ==
  /\ ThrottledIsNoTransportError
  /\ (obs.attempt > 0 /\ req.ws_without_helper) =>
       /\ ~obs.issued
       /\ obs.notes.start_error > 0 => req.error = ERR_DISALLOWED_URL_SCHEME
  /\ (obs.throttled /\ ~req.ws_without_helper) =>
       /\ ~obs.issued
       /\ obs.notes.start_error > 0 => req.error = ERR_TEMPORARILY_THROTTLED

(* C26, corrected: the first attempt, which creates the transaction, does  *)
(* not issue Start for a websocket URL without handshake helper nor when   *)
(* the throttling entry rejects, and fails with the respective error; an   *)
(* attempt made after an auth restart reuses the transaction and issues    *)
(* RestartWithAuth without asking the throttling entry, whatever it would  *)
(* answer.                                                                 *)
C26_FirstAttemptChecksSchemeAndThrottle ==
  /\ ThrottledIsNoTransportError
  /\ (obs.attempt > 0 /\ req.ws_without_helper) =>
       /\ FirstAttempt
       /\ ~obs.issued
       /\ obs.notes.start_error > 0 => req.error = ERR_DISALLOWED_URL_SCHEME
  /\ (FirstAttempt /\ obs.throttled /\ ~req.ws_without_helper) =>
       /\ ~obs.issued
       /\ obs.notes.start_error > 0 => req.error = ERR_TEMPORARILY_THROTTLED
  /\ (~FirstAttempt /\ obs.attempt > 0 /\ obs.start_path # "none") =>
       obs.issued

(* The throttling entry rejected the first attempt: Start was not issued   *)
(* and the consumer was told ERR_TEMPORARILY_THROTTLED.                    *)
C26_Witness ==
  /\ FirstAttempt
  /\ obs.throttled
  /\ ~obs.issued
  /\ obs.notes.start_error = 1
  /\ req.error = ERR_TEMPORARILY_THROTTLED

OverrideSet == job.override_response_headers_ # NoHeaders

(* What the consumers other than the redirect completion have used, if     *)
(* they ran: the Set-Cookie enumeration and its Date anchor, the HSTS and  *)
(* Expect-CT ingestion, the response code and NeedsAuth, the decoder       *)
(* chain, GetResponseInfo.                                                 *)
ConsumersUsed(headers) ==
  /\ (obs.save.began /\ SavingEnabled) =>
       /\ obs.save.N = headers.lines
       /\ obs.save.server_time = headers.date
  /\ obs.save.nhc > 0 =>
       /\ obs.hsts_received # {} <=> headers.sts
       /\ obs.expect_ct_received # {} <=> headers.expect_ct
  /\ job.response_info_ => GetResponseCode(S) = headers.code
  /\ obs.na.called =>
       /\ obs.na.code = headers.code
       /\ obs.na.ret <=> headers.code \in {401, 407}
  /\ obs.set_up.done => obs.set_up.content_encoding = headers.content_encoding
  /\ obs.info.filled => obs.info.headers = headers

RedirectCompleted == job.transaction_ /\ txn.caching # "open"

(* C28 as stated: with override headers stored by the post-headers hook,   *)
(* every consumer of the response headers uses them and not the            *)
(* transaction's: the Set-Cookie enumeration and its Date anchor, HSTS and *)
(* Expect-CT, the response code and NeedsAuth, the decoder chain,          *)
(* GetResponseInfo, and the completion of a redirect response.             *)
C28_Original ==
  OverrideSet =>
    /\ ConsumersUsed(job.override_response_headers_)
    /\ RedirectCompleted =>
         (txn.caching = "done_reading"
            <=> IsRedirect(job.override_response_headers_))

(* C28, corrected: the same for every consumer but the completion of a     *)
(* redirect response, which decides on the transaction's own headers: the  *)
(* response is cached (DoneReading) when they are a redirect, whatever the *)
(* override headers say, and caching is stopped when only the override     *)
(* headers are a redirect.                                                 *)
C28_OverrideUsedExceptRedirectCompletion ==
  OverrideSet =>
    /\ ConsumersUsed(job.override_response_headers_)
    /\ RedirectCompleted =>
         /\ txn.caching = (IF IsRedirect(txn.response.headers)
                             THEN "done_reading" ELSE "stop_caching")
         /\ ~obs.check_failed

(* The hook replaced a 200 response with two Set-Cookie lines by a         *)
(* redirect without any: no line was enumerated, GetResponseInfo returned  *)
(* the redirect, and following it stopped the caching.                     *)
C28_Witness ==
  /\ OverrideSet
  /\ job.override_response_headers_ = HeaderVariant(2)
  /\ txn.response.headers = HeaderVariant(1)
  /\ obs.save.began
  /\ obs.save.N = 0
  /\ obs.hsts_received # {}
  /\ obs.info.filled
  /\ obs.info.headers = HeaderVariant(2)
  /\ txn.caching = "stop_caching"

(* The step is a completion of the transaction with a certificate error.  *)
CertificateErrorCompletes == obs'.cert.seen /\ obs' # obs

PreHookRejected == obs.pre_hook.answered /\ obs.pre_hook.result # OK

(* The step in which the pre-transaction hook's rejection arrives.         *)
PreHookRejects == ~PreHookRejected /\ PreHookRejected'

(* The step in which the start error of a rejected attempt reaches the     *)
(* consumer.                                                               *)
RejectionDelivered ==
  /\ PreHookRejected'
  /\ obs'.notes.start_error > 0
  /\ ~(PreHookRejected /\ obs.notes.start_error > 0)

(* C25: when the pre-transaction hook rejects, in its return value or      *)
(* through its callback, no transaction is created or started for the      *)
(* attempt, and the failure reaches the consumer only from a posted task   *)
(* that carries the hook's result, never in the stack of the hook's answer *)
(* or of Start() or SetAuth().                                             *)
C25_PreHookRejectionDeferred ==
  /\ [](PreHookRejected =>
          /\ ~obs.issued
          /\ job.transaction_ => obs.attempt > 1
          /\ obs.notes.start_error > 0 =>
               (req.error = obs.pre_hook.result /\ ~obs.reentrant))
  /\ [][(PreHookRejects =>
            /\ job'.transaction_ = job.transaction_
            /\ txn'.cb = "none"
            /\ obs'.notes.start_error = 0
            /\ req'.phase # "failed"
            /\ sched'.tasks # <<>>
            /\ sched'.tasks[Len(sched'.tasks)] =
                 [kind |-> "NotifyStartError", valid |-> TRUE,
                  arg |-> obs'.pre_hook.result])
        /\ (RejectionDelivered =>
              /\ PreHookRejected
              /\ HeadTask("NotifyStartError", TRUE)
              /\ Head(sched.tasks).arg = obs.pre_hook.result)]_vars

(* The hook rejected the attempt of a restart made by SetAuth(); the       *)
(* posted task has delivered the hook's result.                            *)
C25_Witness ==
  /\ PreHookRejected
  /\ obs.kind = "SetAuth"
  /\ obs.notes.start_error = 1
  /\ req.error = ERR_BLOCKED_BY_CLIENT
  /\ req.phase = "failed"
  /\ ~obs.issued

(* Jar writes of the attempt that the jar has not answered.                *)
UnresolvedJarWrites == obs.save.written \ obs.save.resolved

(* C30: the counter of pending cookie operations is never negative, is at  *)
(* least 1 whenever the enumeration loop has handled a line and goes on,   *)
(* equals the number of unresolved jar writes once the loop has ended, and *)
(* NotifyHeadersComplete has run exactly when it has become zero, being    *)
(* called with the counter at zero.                                        *)
C30_CounterCountsPendingWrites ==
  /\ job.num_cookie_lines_left_ >= 0
  /\ ~obs.save.loop_low
  /\ (obs.save.began /\ SavingEnabled) =>
       /\ job.num_cookie_lines_left_ = Cardinality(UnresolvedJarWrites)
       /\ obs.save.nhc = (IF job.num_cookie_lines_left_ = 0 THEN 1 ELSE 0)
       /\ obs.save.nhc_left = 0

(* Two lines went to the jar, which has answered the second only: the      *)
(* counter is 1 and NotifyHeadersComplete has not run.                     *)
C30_Witness ==
  /\ obs.save.began
  /\ obs.save.written = {1, 2}
  /\ obs.save.resolved = {2}
  /\ job.num_cookie_lines_left_ = 1
  /\ obs.save.nhc = 0

(* C29: a User-Agent or an Accept-Language that the caller put into the    *)
(* extra headers is the value handed to the transaction, for every URL,    *)
(* and the default values are handed over only for a header the caller did *)
(* not supply.                                                             *)
C29_CallerHeadersKept ==
  (obs.issued /\ job.transaction_) =>
    LET caller == req.extra_request_headers
        sent == txn.request_headers IN
    /\ caller.user_agent = "caller" => sent.user_agent = "caller"
    /\ caller.accept_language = "caller" => sent.accept_language = "caller"
    /\ sent.user_agent = "default" => caller.user_agent = "missing"
    /\ sent.accept_language = "default" => caller.accept_language = "missing"

(* The lines of the tuples of a write-result list.                         *)
LinesOf(list) == {list[i].line : i \in DOMAIN list}

(* The list reaches the request only from NotifyHeadersComplete, which     *)
(* runs once per response, when no cookie operation is pending, and leaves *)
(* the job with an empty list.                                             *)
PublishedOncePerResponse ==
  /\ obs.save.nhc <= 1
  /\ ~obs.nhc_twice
  /\ obs.save.began =>
       obs.save.nhc = (IF job.num_cookie_lines_left_ = 0 THEN 1 ELSE 0)
  /\ req.maybe_stored_cookies # <<>> => obs.save.nhc = 1
  /\ obs.pub.done =>
       /\ obs.pub.nhc = 1
       /\ job.set_cookie_access_result_list_ = <<>>
       /\ ~obs.pub.ready =>
            (obs.notes.headers_complete = 1
               /\ Len(req.maybe_stored_cookies) = Len(obs.pub.list))

(* C31 as stated: the write-result list is published to the request once   *)
(* per response, at the headers-complete signal, with exactly one tuple    *)
(* per Set-Cookie line of the response, and the job's list is empty        *)
(* afterwards.                                                             *)
C31_Original ==
  /\ PublishedOncePerResponse
  /\ obs.pub.done => Len(obs.pub.list) = obs.pub.lines

(* C31, corrected: the same when the request saves cookies (a cookie store *)
(* exists and LOAD_DO_NOT_SAVE_COOKIES is clear): the published list then  *)
(* has one tuple for each of the N Set-Cookie lines; when the request does *)
(* not save cookies the published list is empty however many Set-Cookie    *)
(* lines the response has.                                                 *)
C31_ListPublishedOncePerResponse ==
  /\ PublishedOncePerResponse
  /\ obs.pub.done =>
       Len(obs.pub.list) = (IF SavingEnabled THEN obs.pub.lines ELSE 0)
  /\ (obs.save.nhc = 1 /\ SavingEnabled) =>
       /\ Len(req.maybe_stored_cookies) = obs.save.N
       /\ LinesOf(req.maybe_stored_cookies) = 1..obs.save.N

(* The jar answered the two lines of a response out of order; the second   *)
(* answer published both tuples and signalled headers-complete.            *)
C31_Witness ==
  /\ obs.pub.done
  /\ obs.pub.lines = 2
  /\ Len(obs.pub.list) = 2
  /\ obs.origin = "idle"
  /\ obs.pub.written = {1, 2}
  /\ Len(req.maybe_stored_cookies) = 2
  /\ req.maybe_stored_cookies[1].line = 2
  /\ obs.notes.headers_complete = 1
  /\ job.set_cookie_access_result_list_ = <<>>

(* The attempt queries the jar: a cookie store exists and credentials are  *)
(* allowed.                                                                *)
ReadsCookies == req.cookie_store /\ req.allow_credentials

CookieReadPending ==
  \E c \in sched.callbacks : c.kind = "SetCookieHeaderAndStart" /\ c.valid

(* The attempt has reached StartTransaction().                             *)
ReachedStartTransaction == obs.start_path = "StartTransaction"

(* C32: in every attempt that starts with Start() or with a restart with   *)
(* auth, StartTransaction() is reached, and Start/RestartWithAuth issued,  *)
(* only after the cookie read of that attempt: when a cookie store exists  *)
(* and credentials are allowed, after the jar's read callback has run and  *)
(* the list of cookies considered for sending has been published, and not  *)
(* while the jar's answer is outstanding; otherwise without any query of   *)
(* the jar.                                                                *)
C32_StartAfterCookieRead ==
  /\ (obs.issued /\ obs.kind \in {"start"} \cup AuthRestarts) =>
       ReachedStartTransaction
  /\ ReachedStartTransaction =>
       IF ReadsCookies
         THEN /\ obs.cookie_read.done
              /\ obs.jar_read \in {"empty", "cookies"}
              /\ CookieNames(req.maybe_sent_cookies) =
                   CookieNames(ExcludedAfterFilter \o IncludedAfterFilter)
         ELSE /\ ~obs.cookie_read.done
              /\ obs.jar_read = "not_queried"
              /\ req.maybe_sent_cookies = <<>>
  /\ CookieReadPending =>
       /\ ~ReachedStartTransaction
       /\ ~obs.issued
       /\ txn.cb = "none"

(* SetAuth() restarted the transaction after the jar had answered the      *)
(* query of the restart with a cookie.                                     *)
C32_Witness ==
  /\ obs.kind = "SetAuth"
  /\ obs.issued
  /\ obs.cookie_read.done
  /\ obs.jar_read = "cookies"
  /\ Len(req.maybe_sent_cookies) = 1
  /\ txn.cb = "start"
  /\ obs.sent_credentials = "credentials"

(* The step is a read that finishes, in ReadRawData or in OnReadCompleted. *)
ReadCompletes ==
  /\ req.phase \in {"reading", "read_pending"}
  /\ obs'.read # obs.read

(* The step is a ReadRawData that returns ERR_IO_PENDING.                  *)
ReadPends == req.phase = "reading" /\ req'.phase = "read_pending"

NotFinalizedByStep ==
  /\ job'.done_ = job.done_
  /\ req'.completions = req.completions

(* C33: a read that finishes, in ReadRawData or in OnReadCompleted, with a *)
(* result that after the length-mismatch rule is 0 or an error finalizes   *)
(* the request with cause FINISHED; a read that returns a positive byte    *)
(* count or ERR_IO_PENDING does not finalize it; ReadRawData is never      *)
(* entered while a read is in progress, and the transaction holds a read   *)
(* callback only while read_in_progress_ is set.                           *)
C33_ReadCompletionFinalizes ==
  /\ [](/\ ~obs.read_reentered
        /\ txn.cb = "read" =>
             (job.read_in_progress_ /\ req.phase = "read_pending"
                /\ ~job.done_))
  /\ [][/\ ReadCompletes =>
             /\ obs'.read.mode = (IF req.phase = "reading"
                                    THEN "sync" ELSE "async")
             /\ IF obs'.read.result <= 0
                  THEN job'.done_ /\ req'.completions = <<"FINISHED">>
                  ELSE NotFinalizedByStep
        /\ ReadPends => (NotFinalizedByStep /\ ~job'.done_)]_vars

(* A pending read failed and the request was finalized with FINISHED.      *)
C33_Witness ==
  /\ obs.read.mode = "async"
  /\ obs.read.rv = ERR_FAILED
  /\ obs.read.result = ERR_FAILED
  /\ job.done_
  /\ ~job.read_in_progress_
  /\ req.completions = <<"FINISHED">>

(* A completion of the transaction's start or an answer of the             *)
(* post-headers hook is outstanding: SaveCookiesAndNotifyHeadersComplete   *)
(* can be entered by the next step.                                        *)
SaveCookiesCanBeEntered ==
  \/ job.transaction_ /\ txn.cb = "start"
  \/ \E i \in DOMAIN sched.tasks :
       sched.tasks[i].kind = "OnStartCompleted" /\ sched.tasks[i].valid
  \/ \E c \in sched.callbacks :
       c.kind = "OnHeadersReceivedCallback" /\ c.valid

(* C34: SaveCookiesAndNotifyHeadersComplete is never entered with a        *)
(* non-zero counter of pending cookie lines or a non-empty write-result    *)
(* list: neither check at its entry fails, and whenever it can be entered, *)
(* for a first response or after any restart, from OnStartCompleted or     *)
(* from the post-headers hook's callback, the counter is 0 and the list is *)
(* empty.                                                                  *)
C34_SaveCookiesEnteredClean ==
  /\ ~obs.save_check_failed
  /\ SaveCookiesCanBeEntered =>
       /\ job.num_cookie_lines_left_ = 0
       /\ job.set_cookie_access_result_list_ = <<>>

(* The response after an automatic auth restart was approved by the        *)
(* post-headers hook's callback and its two lines were handed to the jar,  *)
(* which has answered one.                                                 *)
C34_Witness ==
  /\ obs.kind = "auto"
  /\ obs.attempt = 2
  /\ obs.save.began
  /\ obs.post_hook = "approved"
  /\ obs.save.written = {1, 2}
  /\ job.num_cookie_lines_left_ = 1
  /\ Len(job.set_cookie_access_result_list_) = 1
  /\ ~obs.save_check_failed

(* The step is Start(), SetAuth(), ContinueWithCertificate() or            *)
(* ContinueDespiteLastError() called by the consumer.                      *)
ConsumerStartsAttempt ==
  /\ obs'.attempt = obs.attempt + 1
  /\ obs'.restart_origin = "consumer"

LastTask(tasks) == tasks[Len(tasks)]

(* C35: no notification (start error, headers complete, final headers,     *)
(* certificate error, certificate requested) is delivered in the stack of  *)
(* a consumer call: Start(), SetAuth(), ContinueWithCertificate() and      *)
(* ContinueDespiteLastError() return with no notification of the new       *)
(* attempt delivered and the request waiting, also when the cookie jar,    *)
(* the pre-transaction hook and the transaction answer synchronously, and  *)
(* CancelAuth() returns with the notification posted as a task.            *)
C35_NoNotificationInConsumerStack ==
  /\ [](~obs.reentrant)
  /\ [][/\ ConsumerStartsAttempt =>
             /\ obs'.notes = NoNotes
             /\ req'.phase = "waiting"
             /\ obs'.kind \in {"start"} \cup ConsumerRestarts
        /\ CancelAuthStep =>
             /\ obs'.notes = obs.notes
             /\ Len(sched'.tasks) = Len(sched.tasks) + 1
             /\ LastTask(sched'.tasks) =
                  [kind |-> "NotifyFinalHeadersReceived", valid |-> TRUE,
                   arg |-> 0]]_vars

(* Start() returned after the jar, the pre-transaction hook and the        *)
(* transaction had all answered in its stack: the completion is a posted   *)
(* task and the consumer has been told nothing.                            *)
C35_Witness ==
  /\ obs.kind = "start"
  /\ obs.restart_origin = "consumer"
  /\ obs.cookie_read.done
  /\ obs.pre_hook.answered
  /\ obs.issued
  /\ txn.cb = "none"
  /\ sched.callbacks = {}
  /\ sched.tasks = <<[kind |-> "OnStartCompleted", valid |-> TRUE, arg |-> OK]>>
  /\ obs.notes = NoNotes
  /\ req.phase = "waiting"

(* The state is the one NotifyHeadersComplete left when it restarted the   *)
(* transaction for a response that was ready to restart for auth.          *)
IntermediateResponse == obs.pub.done /\ obs.pub.ready

(* The step in which NotifyHeadersComplete makes that restart.             *)
AutoRestartStep == obs'.kind = "auto" /\ obs'.attempt = obs.attempt + 1

(* The security headers of the response are ones the code accepts: TLS     *)
(* without certificate error and a TransportSecurityState to hand them to. *)
SecurityHeadersAccepted == obs.pub.clean_tls /\ req.transport_security_state

(* The restart for an intermediate response: empty credentials, no         *)
(* headers-complete for the consumer, the security headers handed over,    *)
(* the published cookie lists emptied before the cookies are read again.   *)
RestartsWithoutHeadersComplete ==
  /\ [](IntermediateResponse =>
          /\ obs.kind = "auto"
          /\ obs.notes = NoNotes
          /\ job.auth_credentials_ = NoCredentials
          /\ obs.issued => obs.sent_credentials = NoCredentials
          /\ (obs.pub.sts /\ SecurityHeadersAccepted /\ ~req.host_is_ip) =>
               obs.hsts_received # {}
          /\ (obs.pub.expect_ct /\ SecurityHeadersAccepted) =>
               obs.expect_ct_received # {}
          /\ job.num_cookie_lines_left_ = 0
          /\ req.maybe_stored_cookies = <<>>
          /\ IF obs.cookie_read.done
               THEN CookieNames(req.maybe_sent_cookies) =
                      CookieNames(ExcludedAfterFilter \o IncludedAfterFilter)
               ELSE req.maybe_sent_cookies = <<>>)
  /\ [][AutoRestartStep =>
          /\ obs'.pub.done /\ obs'.pub.ready
          /\ req'.phase = req.phase
          /\ req'.response_headers = req.response_headers]_vars

(* C36 as stated: when headers complete and the transaction is ready to    *)
(* restart for auth, the job restarts with empty credentials and without a *)
(* headers-complete for the consumer; the Set-Cookie lines of the          *)
(* intermediate response have been written to the jar, its security        *)
(* headers processed, and the published sent and stored cookie lists are   *)
(* emptied before the restarted attempt reads cookies.                     *)
C36_Original ==
  /\ RestartsWithoutHeadersComplete
  /\ [](IntermediateResponse => obs.pub.written = 1..obs.pub.lines)

(* C36, corrected: the same, but the lines written to the jar are those    *)
(* that parsed and passed the admission check, for a request that saves    *)
(* cookies (a cookie store exists and LOAD_DO_NOT_SAVE_COOKIES is clear):  *)
(* every line then has its tuple, the lines recorded as included are the   *)
(* lines handed to the jar, and the jar has answered them all; for a       *)
(* request that does not save cookies no line is written.                  *)
C36_IntermediateResponseHandled ==
  /\ RestartsWithoutHeadersComplete
  /\ [](IntermediateResponse =>
          IF SavingEnabled
            THEN /\ Len(obs.pub.list) = obs.pub.lines
                 /\ LinesOf(obs.pub.list) = 1..obs.pub.lines
                 /\ \A i \in DOMAIN obs.pub.list :
                      IsInclude(obs.pub.list[i].status)
                        <=> obs.pub.list[i].line \in obs.pub.written
            ELSE obs.pub.written = {} /\ obs.pub.list = <<>>)

(* A response with two Set-Cookie lines and both security headers over     *)
(* clean TLS was ready to restart: both lines went to the jar, the headers *)
(* were handed over, and the transaction was restarted with empty          *)
(* credentials after the jar had been read again.                          *)
C36_Witness ==
  /\ IntermediateResponse
  /\ obs.pub.lines = 2
  /\ obs.pub.written = {1, 2}
  /\ obs.pub.sts
  /\ obs.hsts_received # {}
  /\ obs.expect_ct_received # {}
  /\ obs.cookie_read.done
  /\ Len(req.maybe_sent_cookies) = 1
  /\ obs.issued
  /\ obs.sent_credentials = NoCredentials
  /\ obs.notes = NoNotes
  /\ txn.cb = "start"

(* C37: once SaveCookiesAndNotifyHeadersComplete(OK) has begun, of a       *)
(* request that is not killed and whose jar writes are all answered,       *)
(* NotifyHeadersComplete runs at some time; while it has not run, the      *)
(* counter is not zero and an answer of the jar is outstanding.            *)
C37_HeadersCompleteEventuallyFires ==
  /\ obs.save.began ~> (obs.save.nhc = 1 \/ req.killed)
  /\ []((obs.save.began /\ obs.save.nhc = 0 /\ ~req.killed) =>
          /\ job.num_cookie_lines_left_ > 0
          /\ JarAnswerOutstanding)

(* Two lines went to the jar, which answered the second before the first,  *)
(* and the last answer signalled headers-complete.                         *)
C37_Witness ==
  /\ obs.save.began
  /\ obs.save.written = {1, 2}
  /\ obs.save.resolved = {1, 2}
  /\ LinesOf(req.maybe_stored_cookies) = {1, 2}
  /\ req.maybe_stored_cookies[1].line = 2
  /\ sched.callbacks = {}
  /\ obs.save.nhc = 1
  /\ obs.notes.headers_complete = 1
  /\ job.num_cookie_lines_left_ = 0
  /\ ~req.killed

(* The NetworkDelegate returned ERR_IO_PENDING from NotifyHeadersReceived  *)
(* and neither its callback nor NotifyURLRequestDestroyed() has run since. *)
HeadersReceivedHookOutstanding == obs.post_hook = "pending"

(* C38: awaiting_callback_ is true exactly while an answer to              *)
(* NotifyHeadersReceived is outstanding; Kill() leaves it as it is; and    *)
(* the CHECK of the destructor fails exactly when the job is destroyed     *)
(* while the answer is outstanding.                                        *)
C38_AwaitingCallbackTracksHook ==
  /\ [](job.awaiting_callback_ <=> HeadersReceivedHookOutstanding)
  /\ [][obs'.kills # obs.kills =>
          job'.awaiting_callback_ = job.awaiting_callback_]_vars
  /\ [](req.phase = "destroyed" =>
          (obs.dtor_check_failed <=> HeadersReceivedHookOutstanding))
  /\ [](req.phase # "destroyed" => ~obs.dtor_check_failed)

(* The job was killed while the NetworkDelegate's answer was outstanding,  *)
(* the flag stayed set, NotifyURLRequestDestroyed() cleared it and the     *)
(* destructor passed its CHECK.                                            *)
C38_Witness ==
  /\ req.killed
  /\ obs.post_hook = "abandoned"
  /\ req.phase = "destroyed"
  /\ ~job.awaiting_callback_
  /\ ~obs.dtor_check_failed
  /\ job.done_

(* The cause a step that finalizes the request gives: ABORTED from Kill()  *)
(* and from the destructor, FINISHED from the read path and DoneReading(). *)
CauseOfStep ==
  IF req'.phase = "destroyed" \/ obs'.kills # obs.kills
    THEN "ABORTED" ELSE "FINISHED"

(* C39: done_ is never cleared: a finalized job stays finalized through    *)
(* restarts, Kill(), DoneReading() and destruction; the step that          *)
(* finalizes it records its own cause and the received content length      *)
(* once and notifies the NetworkQualityEstimator once, when the context    *)
(* has one; no later step records or notifies again or changes the cause.  *)
C39_DoneMonotonicFirstCauseWins ==
  /\ [](job.done_ <=> Len(req.completions) = 1)
  /\ [](obs.completion.recorded = Len(req.completions))
  /\ [](obs.completion.notified =
          IF job.done_ /\ req.network_quality_estimator THEN 1 ELSE 0)
  /\ [][/\ job.done_ =>
             (/\ job'.done_
              /\ req'.completions = req.completions
              /\ obs'.completion = obs.completion)
        /\ (~job.done_ /\ job'.done_) =>
             req'.completions = <<CauseOfStep>>]_vars

(* The body was read to its end, which finalized the request as FINISHED;  *)
(* the transaction was restarted, the job killed and destroyed afterwards, *)
(* and the cause recorded is still the first.                              *)
C39_Witness ==
  /\ req.phase = "destroyed"
  /\ req.killed
  /\ obs.attempt = 2
  /\ job.done_
  /\ req.completions = <<"FINISHED">>
  /\ obs.completion = [notified |-> 1, recorded |-> 1]

(* C40: ResetTimer() and RecordTimer() alternate, beginning with the       *)
(* ResetTimer() of the constructor: the calls of RecordTimer() are as many *)
(* as those of ResetTimer() or one fewer, the timer is set exactly when    *)
(* there is one fewer, every OnStartCompleted, which calls RecordTimer(),  *)
(* finds exactly one ResetTimer() not yet recorded, and no NOTREACHED of   *)
(* the two is executed.                                                    *)
C40_TimerAlternation ==
  /\ [](~obs.notreached)
  /\ [](obs.timer.resets \in {obs.timer.records, obs.timer.records + 1})
  /\ [](job.request_creation_time_ <=>
          obs.timer.resets = obs.timer.records + 1)
  /\ [][obs'.timer.records # obs.timer.records =>
          /\ obs'.timer.records = obs.timer.records + 1
          /\ obs.timer.resets = obs.timer.records + 1
          /\ job.request_creation_time_]_vars

(* The first OnStartCompleted recorded the timer, a restart reset it and   *)
(* the OnStartCompleted of the restarted transaction recorded it again.    *)
C40_Witness ==
  /\ obs.timer = [resets |-> 2, records |-> 2]
  /\ ~job.request_creation_time_
  /\ obs.attempt = 2
  /\ obs.kind \in {"ContinueDespiteLastError", "ContinueWithCertificate"}
  /\ ~obs.notreached

====
